---- MODULE Spec2Model ----
(***************************************************************************)
(* Live-update relay of the dev server: the Host/Origin validation gate,   *)
(* the relay's connection handler on top of the two transport backends,    *)
(* the broadcast operations and the plain-HTTP host check middleware.      *)
(*                                                                         *)
(* Texts (header values, hostnames, allow-list entries) are sequences of   *)
(* atoms.  An atom is a run of characters that is never split or merged:   *)
(* every text has exactly one atom sequence, "." "//" "/" ":" "[" "]" are  *)
(* always atoms of their own, so prefix, suffix and equality of atom       *)
(* sequences coincide with those of the character strings they spell.      *)
(***************************************************************************)
EXTENDS Integers, Sequences, FiniteSets, TLC

VARIABLES
    options,          \* Server.options after normalizeOptions
    webSocketServer,  \* "undefined" before createWebSocketServer, "up", "null" after stop
    clients,          \* webSocketServer.clients, the connection registry
    conn,             \* the connection objects handed out by the transport
    stats,            \* Server.stats, the last completed build
    currentHash,      \* Server.currentHash
    builds,           \* number of done events so far
    notices,          \* number of invalid / progress / static-changed events
    probe,            \* the request handled by the last step, if it handled one
    interval,         \* the heartbeat timer of WebsocketServer
    socket,           \* client-src/socket.ts: retries, maxRetries, client, timeout
    page              \* client-src/index.ts: options, status and the overlay

vars == <<options, webSocketServer, clients, conn, stats, currentHash, builds,
          notices, probe, interval, socket, page>>

----------------------------------------------------------------------------
(* Bounds *)

MaxConns == 1

MaxBuilds == 1

MaxNotices == 1

\* done events of the builds specification, heartbeat ticks of the
\* lifecycle specification
MaxDone == 2

MaxTicks == 2

\* messages one page handles
MaxMessages == 2

----------------------------------------------------------------------------
(* JavaScript values that are not texts *)

Undefined == <<"<undefined>">>

Null == <<"<null>">>

\* !value for a string-or-undefined value: undefined and '' are falsy
Falsy(v) == v = Undefined \/ v = <<>>

\* headers[name] on a plain object: a missing key reads as undefined
Get(headers, name) == IF name \in DOMAIN headers THEN headers[name] ELSE Undefined

----------------------------------------------------------------------------
(* String primitives *)

StartsWith(s, p) == Len(s) >= Len(p) /\ SubSeq(s, 1, Len(p)) = p

EndsWith(s, p) == Len(s) >= Len(p) /\ SubSeq(s, Len(s) - Len(p) + 1, Len(s)) = p

\* s.slice(n) for n <= s.length
Slice(s, n) == SubSeq(s, n + 1, Len(s))

ToLowerAtom(a) ==
    CASE a = "EXAMPLE" -> "example"
      [] a = "FILE:" -> "file:"
      [] OTHER -> a

ToLowerCase(s) == [i \in 1..Len(s) |-> ToLowerAtom(s[i])]

\* atoms that end with the character ':'
ColonAtoms == {":", "http:", "file:", "FILE:", "javascript:", "-extension:"}

\* atoms made only of characters of [a-z0-9.+-]
ProtoCharAtoms ==
    {"example", "EXAMPLE", "com", "foo", "not", "evil", "localhost", "app",
     "pub", "dev", "null", "chrome", ".", "127", "0", "1", "8080"}

DigitAtoms == {"127", "0", "1", "8080"}

HexAtoms == DigitAtoms

----------------------------------------------------------------------------
(* Regular expressions and library predicates used by the validator *)

\* /^(file|.+-extension):/i
DEFAULT_ALLOWED_PROTOCOLS(t) ==
    /\ Len(t) >= 1
    /\ \/ ToLowerAtom(t[1]) = "file:"
       \/ \E i \in 2..Len(t) : ToLowerAtom(t[i]) = "-extension:"

\* /^(.+:)?\/\//
HasSchemeSlashes(t) ==
    \E k \in 0..(Len(t) - 1) :
        /\ t[k + 1] = "//"
        /\ k = 0 \/ t[k] \in ColonAtoms

\* header doesn't have scheme, add // for parsing
WithSlashes(t) == IF HasSchemeSlashes(t) THEN t ELSE <<"//">> \o t

\* ipaddr.IPv4.isValid on a four-part decimal address
IPv4IsValid(h) ==
    /\ Len(h) = 7
    /\ \A i \in 1..7 : IF i % 2 = 1 THEN h[i] \in DigitAtoms ELSE h[i] = "."

\* ipaddr.IPv6.isValid: groups of hex digits separated by ':' with one '::'
IPv6IsValid(h) ==
    /\ Len(h) >= 2
    /\ \A i \in 1..Len(h) : h[i] \in HexAtoms \cup {":"}
    /\ \E i \in 1..(Len(h) - 1) : h[i] = ":" /\ h[i + 1] = ":"

----------------------------------------------------------------------------
(* url.parse(text, false, true).hostname of the legacy node url parser *)

\* length of the match of /^[a-z0-9.+-]+:/i, 0 when there is none
ProtoLen(t) ==
    LET ks == {k \in 1..Len(t) :
                  /\ t[k] \in ColonAtoms
                  /\ \A i \in 1..(k - 1) : t[i] \in ProtoCharAtoms
                  /\ t[k] = ":" => k >= 2}
    IN IF ks = {} THEN 0 ELSE CHOOSE k \in ks : \A j \in ks : k <= j

SlashedProtocol == {"http:", "https:", "ftp:", "gopher:", "file:", "ws:", "wss:"}

HostlessProtocol == {"javascript:"}

\* index of the first atom that ends the host ('/'), Len + 1 when none
HostEnd(r) ==
    LET es == {i \in 1..Len(r) : r[i] \in {"/", "//"}}
    IN IF es = {} THEN Len(r) + 1 ELSE CHOOSE i \in es : \A j \in es : i <= j

\* strip the match of /:[0-9]*$/
StripPort(h) ==
    IF Len(h) >= 1 /\ h[Len(h)] = ":" THEN SubSeq(h, 1, Len(h) - 1)
    ELSE IF Len(h) >= 2 /\ h[Len(h) - 1] = ":" /\ h[Len(h)] \in DigitAtoms
         THEN SubSeq(h, 1, Len(h) - 2)
         ELSE h

\* '[' ... ']' around an IPv6 literal is removed from the hostname
StripBrackets(h) ==
    IF Len(h) >= 2 /\ h[1] = "[" /\ h[Len(h)] = "]"
    THEN SubSeq(h, 2, Len(h) - 1)
    ELSE h

UrlParseHostname(t) ==
    LET k        == ProtoLen(t)
        hasProto == k > 0
        proto    == ToLowerCase(SubSeq(t, 1, k))
        rest     == Slice(t, k)
        hostless == hasProto /\ k = 1 /\ proto[1] \in HostlessProtocol
        slashed  == hasProto /\ k = 1 /\ proto[1] \in SlashedProtocol
        slashes  == Len(rest) >= 1 /\ rest[1] = "//"
        rest2    == IF slashes /\ ~hostless THEN Tail(rest) ELSE rest
    IN  IF ~hostless /\ (slashes \/ (hasProto /\ ~slashed))
        THEN LET host == SubSeq(rest2, 1, HostEnd(rest2) - 1)
             IN ToLowerCase(StripBrackets(StripPort(host)))
        ELSE Null

----------------------------------------------------------------------------
(* Host / Origin validator (Server.isHostAllowed, isValidHost, isSameOrigin) *)

\* allowedHosts === 'all'
AllowAll(o) == o.allowedHosts.type = "string" /\ o.allowedHosts.value = "all"

\* object === string is false; string === string compares the texts
StrictEqualsText(v, text) == v.type = "string" /\ v.value = text

\* EntryAllows with the wildcard matched against the bare domain, without
\* the '.' boundary
EntryAllowsNoBoundary(allowedHost, value) ==
    \/ allowedHost = value
    \/ /\ StartsWith(allowedHost, <<".">>)
       /\ EndsWith(value, Slice(allowedHost, 1))

\* an allow-list entry admits value: exact match, or '.' subdomain wildcard
EntryAllows(allowedHost, value) ==
    \/ allowedHost = value
    \/ /\ StartsWith(allowedHost, <<".">>)
       /\ value = Slice(allowedHost, 1) \/ EndsWith(value, allowedHost)

isHostAllowed(o, value) ==
    IF AllowAll(o) THEN TRUE
    ELSE IF /\ o.allowedHosts.type = "array"
            /\ Len(o.allowedHosts.value) > 0
            /\ \E i \in 1..Len(o.allowedHosts.value) :
                   EntryAllows(o.allowedHosts.value[i], value)
    THEN TRUE
    ELSE IF o.client.enabled /\ o.client.webSocketURL.type # "undefined"
    THEN StrictEqualsText(o.client.webSocketURL, value)
    ELSE FALSE

\* isValidHostname without the subdomains of localhost
isValidHostnameNoSubdomain(o, hostname) ==
    \/ IPv4IsValid(hostname)
    \/ IPv6IsValid(hostname)
    \/ hostname = <<"localhost">>
    \/ hostname = o.host

\* the hostnames a strict check always lets through
isValidHostname(o, hostname) ==
    \/ IPv4IsValid(hostname)
    \/ IPv6IsValid(hostname)
    \/ hostname = <<"localhost">>
    \/ EndsWith(hostname, <<".", "localhost">>)
    \/ hostname = o.host

\* isValidHost that lets a request without the header through
isValidHostFailOpen(o, headers, headerToCheck, validateHost) ==
    IF o.allowedHosts.type = "string" /\ o.allowedHosts.value = "all" THEN TRUE
    ELSE LET header == Get(headers, headerToCheck) IN
         IF Falsy(header) THEN TRUE
         ELSE IF DEFAULT_ALLOWED_PROTOCOLS(header) THEN TRUE
         ELSE LET hostname == UrlParseHostname(WithSlashes(header)) IN
              IF hostname = Null THEN FALSE
              ELSE IF isHostAllowed(o, hostname) THEN TRUE
              ELSE IF validateHost THEN isValidHostname(o, hostname)
              ELSE FALSE

\* isValidHost without the allowedHosts === 'all' opt-out
isValidHostNoWildcard(o, headers, headerToCheck, validateHost) ==
    LET header == Get(headers, headerToCheck) IN
    IF Falsy(header) THEN FALSE
    ELSE IF DEFAULT_ALLOWED_PROTOCOLS(header) THEN TRUE
    ELSE LET hostname == UrlParseHostname(WithSlashes(header)) IN
         IF hostname = Null THEN FALSE
         ELSE IF isHostAllowed(o, hostname) THEN TRUE
         ELSE IF validateHost THEN isValidHostname(o, hostname)
         ELSE FALSE

isValidHost(o, headers, headerToCheck, validateHost) ==
    IF AllowAll(o) THEN TRUE
    ELSE LET header == Get(headers, headerToCheck) IN
         IF Falsy(header) THEN FALSE
         ELSE IF DEFAULT_ALLOWED_PROTOCOLS(header) THEN TRUE
         ELSE LET hostname == UrlParseHostname(WithSlashes(header)) IN
              IF hostname = Null THEN FALSE
              ELSE IF isHostAllowed(o, hostname) THEN TRUE
              ELSE IF validateHost THEN isValidHostname(o, hostname)
              ELSE FALSE

isSameOrigin(o, headers) ==
    IF AllowAll(o) THEN TRUE
    ELSE LET originHeader == Get(headers, "origin") IN
         IF Falsy(originHeader) THEN AllowAll(o)
         ELSE IF DEFAULT_ALLOWED_PROTOCOLS(originHeader) THEN TRUE
         ELSE LET origin == UrlParseHostname(originHeader) IN
              IF origin = Null THEN FALSE
              ELSE IF isHostAllowed(o, origin) THEN TRUE
              ELSE LET hostHeader == Get(headers, "host") IN
                   IF Falsy(hostHeader) THEN AllowAll(o)
                   ELSE IF DEFAULT_ALLOWED_PROTOCOLS(hostHeader) THEN TRUE
                   ELSE LET host == UrlParseHostname(WithSlashes(hostHeader)) IN
                        IF host = Null THEN FALSE
                        ELSE IF isHostAllowed(o, host) THEN TRUE
                        ELSE origin = host

----------------------------------------------------------------------------
(* Message envelopes and Server.sendMessage / Server.sendStats *)

\* ws WebSocket.OPEN / CLOSING / CLOSED; sockjs uses the same numbers
OPEN == 1

CLOSING == 2

CLOSED == 3

NoData == <<>>

NoParams == "undefined"

\* JSON.stringify({ type, data, params })
Envelope(type, data, params) == [type |-> type, data |-> data, params |-> params]

InvalidHostOriginMessage == <<"Invalid Host/Origin header">>

\* sendMessage that puts the envelope ahead of what was sent before
RECURSIVE sendMessageAhead(_, _, _)
sendMessageAhead(cn, list, env) ==
    IF list = <<>> THEN cn
    ELSE LET c  == Head(list)
             c1 == IF cn[c].readyState = OPEN
                   THEN [cn EXCEPT ![c].received = <<env>> \o @]
                   ELSE cn
         IN sendMessageAhead(c1, Tail(list), env)

\* sendMessage without the readyState test
RECURSIVE sendMessageAnyState(_, _, _)
sendMessageAnyState(cn, list, env) ==
    IF list = <<>> THEN cn
    ELSE sendMessageAnyState([cn EXCEPT ![Head(list)].received = Append(@, env)],
                             Tail(list), env)

\* for (const client of clients) if (client.readyState === 1) client.send(...)
RECURSIVE sendMessage(_, _, _)
sendMessage(cn, list, env) ==
    IF list = <<>> THEN cn
    ELSE LET c  == Head(list)
             c1 == IF cn[c].readyState = OPEN
                   THEN [cn EXCEPT ![c].received = Append(@, env)]
                   ELSE cn
         IN sendMessage(c1, Tail(list), env)

\* sendStats whose shouldEmit does not look at force
sendStatsIgnoreForce(cn, cur, list, st, force) ==
    LET shouldEmit ==
            /\ Len(st.errors) = 0
            /\ Len(st.warnings) = 0
            /\ cur = st.hash
    IN IF shouldEmit
       THEN [conn |-> sendMessage(cn, list, Envelope("still-ok", NoData, NoParams)),
             currentHash |-> cur]
       ELSE LET c1 == sendMessage(cn, list, Envelope("hash", <<st.hash>>, NoParams))
                hasErrors == Len(st.errors) > 0
                c2 == IF Len(st.warnings) > 0
                      THEN sendMessage(c1, list,
                               Envelope("warnings", st.warnings,
                                   IF hasErrors THEN "preventReloading" ELSE NoParams))
                      ELSE c1
                c3 == IF Len(st.errors) > 0
                      THEN sendMessage(c2, list, Envelope("errors", st.errors, NoParams))
                      ELSE c2
            IN [conn |-> IF Len(st.errors) > 0 \/ Len(st.warnings) > 0
                         THEN c3
                         ELSE sendMessage(c1, list, Envelope("ok", NoData, NoParams)),
                currentHash |-> st.hash]

\* sendStats that sends 'ok' after the problems as well
sendStatsOkAlways(cn, cur, list, st, force) ==
    LET shouldEmit ==
            /\ ~force
            /\ Len(st.errors) = 0
            /\ Len(st.warnings) = 0
            /\ cur = st.hash
    IN IF shouldEmit
       THEN [conn |-> sendMessage(cn, list, Envelope("still-ok", NoData, NoParams)),
             currentHash |-> cur]
       ELSE LET c1 == sendMessage(cn, list, Envelope("hash", <<st.hash>>, NoParams))
                hasErrors == Len(st.errors) > 0
                c2 == IF Len(st.warnings) > 0
                      THEN sendMessage(c1, list,
                               Envelope("warnings", st.warnings,
                                   IF hasErrors THEN "preventReloading" ELSE NoParams))
                      ELSE c1
                c3 == IF Len(st.errors) > 0
                      THEN sendMessage(c2, list, Envelope("errors", st.errors, NoParams))
                      ELSE c2
            IN [conn |-> sendMessage(c3, list, Envelope("ok", NoData, NoParams)),
                currentHash |-> st.hash]

\* the result is the connections after the sends and the new currentHash
sendStats(cn, cur, list, st, force) ==
    LET shouldEmit ==
            /\ ~force
            /\ Len(st.errors) = 0
            /\ Len(st.warnings) = 0
            /\ cur = st.hash
    IN IF shouldEmit
       THEN [conn |-> sendMessage(cn, list, Envelope("still-ok", NoData, NoParams)),
             currentHash |-> cur]
       ELSE LET c1 == sendMessage(cn, list, Envelope("hash", <<st.hash>>, NoParams))
                hasErrors == Len(st.errors) > 0
                c2 == IF Len(st.warnings) > 0
                      THEN sendMessage(c1, list,
                               Envelope("warnings", st.warnings,
                                   IF hasErrors THEN "preventReloading" ELSE NoParams))
                      ELSE c1
                c3 == IF Len(st.errors) > 0
                      THEN sendMessage(c2, list, Envelope("errors", st.errors, NoParams))
                      ELSE c2
            IN [conn |-> IF Len(st.errors) > 0 \/ Len(st.warnings) > 0
                         THEN c3
                         ELSE sendMessage(c1, list, Envelope("ok", NoData, NoParams)),
                currentHash |-> st.hash]

----------------------------------------------------------------------------
(* Connection registry of a transport backend (BaseServer.clients) *)

\* Array.prototype.indexOf, 0-based, -1 when absent
IndexOf(list, c) ==
    LET is == {i \in 1..Len(list) : list[i] = c}
    IN IF is = {} THEN -1 ELSE (CHOOSE i \in is : \A j \in is : i <= j) - 1

\* list.splice(start, 1); a negative start counts from the end
Splice1(list, start) ==
    LET n == Len(list)
        s == IF start < 0 THEN (IF n + start < 0 THEN 0 ELSE n + start)
             ELSE (IF start > n THEN n ELSE start)
    IN IF s >= n THEN list
       ELSE SubSeq(list, 1, s) \o SubSeq(list, s + 2, n)

\* a close listener that leaves the list alone
OnClientCloseKeepsList(list, c) == list

\* the close listener with an index that is off by one
OnClientCloseOffByOne(list, c) == Splice1(list, IndexOf(list, c) + 1)

\* a close listener that always drops the last element
OnClientCloseRemovesLast(list, c) == Splice1(list, -1)

\* client.on('close', () => this.clients.splice(this.clients.indexOf(client), 1))
OnClientClose(list, c) == Splice1(list, IndexOf(list, c))

InRegistry(c) == \E i \in 1..Len(clients) : clients[i] = c

----------------------------------------------------------------------------
(* Inputs: hostnames, header values, requests, options, build results *)

exampleCom == <<"example", ".", "com">>

fooExampleCom == <<"foo", ".", "example", ".", "com">>

notExampleCom == <<"not", "example", ".", "com">>

evilCom == <<"evil", ".", "com">>

pubDev == <<"pub", ".", "dev">>

localhost == <<"localhost">>

appLocalhost == <<"app", ".", "localhost">>

notLocalhost == <<"not", "localhost">>

ipv4 == <<"127", ".", "0", ".", "0", ".", "1">>

ipv6 == <<":", ":", "1">>

Hostnames ==
    {exampleCom, fooExampleCom, notExampleCom, evilCom, pubDev, localhost,
     appLocalhost, notLocalhost, ipv4, ipv6}

\* the way a hostname is written inside a header value
InHeader(h) == IF h = ipv6 THEN <<"[">> \o h \o <<"]">> ELSE h

WithPort(t) == t \o <<":", "8080">>

Http(t) == <<"http:", "//">> \o t

\* Host: name, name:port; Origin: scheme://name, scheme://name:port
HeaderForms(h) ==
    {InHeader(h), WithPort(InHeader(h)), Http(InHeader(h)), Http(WithPort(InHeader(h)))}

SchemeValues ==
    {<<"file:", "//", "/", "app">>, <<"FILE:", "//", "/", "app">>,
     <<"chrome", "-extension:", "//", "pub">>}

OddValues ==
    {Undefined, <<>>, <<"null">>, <<":", "8080">>,
     <<"EXAMPLE", ".", "com">>, Http(<<"EXAMPLE", ".", "com">>)}

HeaderValues == (UNION {HeaderForms(h) : h \in Hostnames}) \cup SchemeValues \cup OddValues

Headers(host, origin) == [host |-> host, origin |-> origin]

\* the request of a connection event; only a custom transport class may
\* emit it with neither a request nor client.headers
Request(hasHeaders, headers) == [hasHeaders |-> hasHeaders, headers |-> headers]

ConnectionRequests ==
    {Request(TRUE, Headers(WithPort(localhost), Http(WithPort(localhost)))),
     Request(TRUE, Headers(exampleCom, Http(exampleCom))),
     Request(TRUE, Headers(exampleCom, Http(evilCom))),
     Request(TRUE, Headers(WithPort(localhost), Http(evilCom))),
     Request(TRUE, Headers(exampleCom, Http(ipv4))),
     Request(TRUE, Headers(WithPort(ipv4), Http(WithPort(localhost)))),
     Request(TRUE, Headers(<<":", "8080">>, Http(localhost))),
     Request(TRUE, Headers(localhost, Undefined)),
     Request(TRUE, Headers(Undefined, Http(exampleCom))),
     Request(TRUE, Headers(WithPort(localhost), <<"chrome", "-extension:", "//", "pub">>)),
     Request(FALSE, Headers(Undefined, Undefined))}

StringValue(v) == [type |-> "string", value |-> v]

ArrayValue(v) == [type |-> "array", value |-> v]

\* normalizeOptions always leaves client.webSocketURL an object
WebSocketURLObject(hostname) == [type |-> "object", hostname |-> hostname]

ClientOptions(enabled, url, on) ==
    [enabled |-> enabled, webSocketURL |-> url,
     progress |-> on, reconnect |-> on, overlay |-> on]

ServerOptions(allowed, host, transport, hot, client) ==
    [allowedHosts |-> allowed, host |-> host, transport |-> transport,
     hot |-> hot, liveReload |-> hot, client |-> client]

AllowedHostsValues ==
    {StringValue("auto"), StringValue("all"), ArrayValue(<<>>),
     ArrayValue(<<exampleCom>>), ArrayValue(<<<<".">> \o exampleCom>>),
     ArrayValue(<<evilCom, <<".">> \o exampleCom>>)}

RelayOption(a, t, on) ==
    ServerOptions(a, Undefined, t, on, ClientOptions(TRUE, WebSocketURLObject(Undefined), on))

RelayOptions ==
    {RelayOption(StringValue("auto"), "ws", TRUE),
     RelayOption(StringValue("auto"), "sockjs", FALSE),
     RelayOption(StringValue("all"), "ws", FALSE),
     RelayOption(StringValue("all"), "sockjs", TRUE),
     RelayOption(ArrayValue(<<exampleCom>>), "ws", TRUE),
     RelayOption(ArrayValue(<<exampleCom>>), "sockjs", FALSE),
     RelayOption(StringValue("all"), "custom", TRUE)}

ValidatorOptions ==
    {ServerOptions(a, h, "ws", TRUE, ClientOptions(e, WebSocketURLObject(u), TRUE)) :
        a \in AllowedHostsValues,
        h \in {Undefined, fooExampleCom},
        e \in BOOLEAN,
        u \in {Undefined, pubDev}}

BuildResult(hash, warnings, errors) ==
    [defined |-> TRUE, hash |-> hash, warnings |-> warnings, errors |-> errors]

NoStats == [defined |-> FALSE, hash |-> "undefined", warnings |-> <<>>, errors |-> <<>>]

BuildResults ==
    {BuildResult("h1", <<>>, <<>>), BuildResult("h2", <<>>, <<>>),
     BuildResult("h2", <<"w1">>, <<>>), BuildResult("h1", <<>>, <<"e1">>),
     BuildResult("h2", <<"w1">>, <<"e1">>)}

----------------------------------------------------------------------------
(* The browser client: the overlay machine, onSocketMessage and reloadApp of *)
(* client-src/index.ts                                                       *)

\* options, status and the overlay of a freshly loaded page built with hash
\* h.  queryHot / queryLiveReload are parsedResourceQuery.hot / ['live-reload']
\* ("undefined", "true" or "false"), allowToHot / allowToLiveReload say that
\* location.search does not hold webpack-dev-server-hot=false /
\* webpack-dev-server-live-reload=false.  reloads, hotUpdates, dismissals and
\* handled count location.reload(), 'webpackHotUpdate' emissions, hideOverlay
\* calls and the messages handled; running is the hash of the build whose
\* code the page runs: the one it was loaded with until a reload or a hot
\* update brings it to status.currentHash.
\* options.reconnect as index.ts hands it to socket(): absent, or
\* Number(parsedResourceQuery.reconnect)
NoReconnect == [defined |-> FALSE, value |-> 0]

Reconnect(n) == [defined |-> TRUE, value |-> n]

PageOf(h, queryHot, queryLiveReload, allowToHot, allowToLiveReload) ==
    [hot |-> queryHot = "true", liveReload |-> queryLiveReload = "true",
     overlay |-> FALSE,
     queryHot |-> queryHot, queryLiveReload |-> queryLiveReload,
     allowToHot |-> allowToHot, allowToLiveReload |-> allowToLiveReload,
     previousHash |-> "undefined", currentHash |-> h, isUnloading |-> FALSE,
     overlayState |-> "hidden", level |-> "error", messages |-> <<>>,
     reloads |-> 0, hotUpdates |-> 0, dismissals |-> 0, handled |-> 0,
     running |-> h, reconnect |-> NoReconnect,
     escListener |-> TRUE]

ClientInit(h) == PageOf(h, "undefined", "undefined", TRUE, TRUE)

\* overlay.send(event) on the machine of createOverlayMachine
OverlaySend(cs, event) ==
    IF cs.overlayState = "hidden"
    THEN IF event.type = "BUILD_ERROR"
         THEN [cs EXCEPT !.overlayState = "displayBuildError",
                         !.messages = event.messages, !.level = event.level]
         ELSE IF event.type = "RUNTIME_ERROR"
         THEN [cs EXCEPT !.overlayState = "displayRuntimeError",
                         !.messages = event.messages, !.level = event.level]
         ELSE cs
    ELSE IF event.type = "DISMISS"
    THEN [cs EXCEPT !.overlayState = "hidden", !.messages = <<>>, !.level = "error",
                    !.dismissals = @ + 1, !.escListener = FALSE]
    ELSE IF cs.overlayState = "displayBuildError"
    THEN IF event.type = "BUILD_ERROR"
         THEN [cs EXCEPT !.messages = @ \o event.messages, !.level = event.level]
         ELSE cs
    ELSE IF event.type = "RUNTIME_ERROR"
         THEN [cs EXCEPT !.messages = @ \o event.messages, !.level = event.level]
         ELSE [cs EXCEPT !.overlayState = "displayBuildError",
                         !.messages = event.messages, !.level = event.level]

Dismiss == [type |-> "DISMISS", level |-> "error", messages |-> <<>>]

BuildError(level, messages) == [type |-> "BUILD_ERROR", level |-> level, messages |-> messages]

\* the keydown listener of createOverlay, for a key that is Escape: it runs
\* while it is registered on the window
handleEscapeKey(cs) == IF cs.escListener THEN OverlaySend(cs, Dismiss) ELSE cs

\* if (options.overlay) overlay.send({ type: 'DISMISS' })
DismissIfOverlay(cs) == IF cs.overlay THEN OverlaySend(cs, Dismiss) ELSE cs

\* currentHash.indexOf(previousHash) >= 0 for hashes of one length; an
\* undefined previousHash is searched for as the text 'undefined'
IsInitial(cs) == cs.currentHash = cs.previousHash

\* a reloadApp without the isInitial test
reloadAppOnInitialSync(cs) ==
    IF cs.isUnloading THEN cs
    ELSE IF cs.hot /\ cs.allowToHot
    THEN [cs EXCEPT !.hotUpdates = @ + 1, !.running = cs.currentHash]
    ELSE IF cs.liveReload /\ cs.allowToLiveReload
    THEN [cs EXCEPT !.reloads = @ + 1, !.running = cs.currentHash]
    ELSE cs

reloadApp(cs) ==
    IF cs.isUnloading THEN cs
    ELSE IF IsInitial(cs) THEN cs
    ELSE IF cs.hot /\ cs.allowToHot
    THEN [cs EXCEPT !.hotUpdates = @ + 1, !.running = cs.currentHash]
    ELSE IF cs.liveReload /\ cs.allowToLiveReload
    THEN [cs EXCEPT !.reloads = @ + 1, !.running = cs.currentHash]
    ELSE cs

onHot(cs) == IF cs.queryHot = "false" THEN cs ELSE [cs EXCEPT !.hot = TRUE]

onLiveReload(cs) ==
    IF cs.queryLiveReload = "false" THEN cs ELSE [cs EXCEPT !.liveReload = TRUE]

\* the relay never sends an empty hash: the early return is not taken
onHash(cs, env) ==
    [cs EXCEPT !.previousHash = cs.currentHash, !.currentHash = env.data[1]]

onOverlay(cs, env) == [cs EXCEPT !.overlay = TRUE]

\* parsedResourceQuery.reconnect is never the text 'false': the server
\* writes a number into the query
onReconnect(cs, env) == [cs EXCEPT !.reconnect = Reconnect(env.data[1])]

onOk(cs) == reloadApp(DismissIfOverlay(cs))

\* the warnings handler without the preventReloading test
onWarningsAlwaysReload(cs, env) ==
    LET c1 == IF cs.overlay /\ Len(env.data) > 0
              THEN OverlaySend(cs, BuildError("warning", env.data)) ELSE cs
    IN reloadApp(c1)

onWarnings(cs, env) ==
    LET c1 == IF cs.overlay /\ Len(env.data) > 0
              THEN OverlaySend(cs, BuildError("warning", env.data)) ELSE cs
    IN IF env.params = "preventReloading" THEN c1 ELSE reloadApp(c1)

\* an errors handler that goes on to reloadApp
onErrorsThenReload(cs, env) ==
    reloadApp(IF cs.overlay /\ Len(env.data) > 0
              THEN OverlaySend(cs, BuildError("error", env.data)) ELSE cs)

onErrors(cs, env) ==
    IF cs.overlay /\ Len(env.data) > 0
    THEN OverlaySend(cs, BuildError("error", env.data)) ELSE cs

\* a still-ok handler that treats the message as 'ok'
onStillOkAsOk(cs) == reloadApp(DismissIfOverlay(cs))

onStillOk(cs) == DismissIfOverlay(cs)

onInvalid(cs) == DismissIfOverlay(cs)

onClose(cs) == DismissIfOverlay(cs)

onStaticChanged(cs) == [cs EXCEPT !.reloads = @ + 1]

\* handlers[message.type](message.data, message.params); the handlers that
\* touch neither options.hot / liveReload / overlay nor status nor the page
\* are no-ops here
onSocketMessage(cs, env) ==
    LET c1 == IF env.type = "hot" THEN onHot(cs)
              ELSE IF env.type = "liveReload" THEN onLiveReload(cs)
              ELSE IF env.type = "overlay" THEN onOverlay(cs, env)
              ELSE IF env.type = "reconnect" THEN onReconnect(cs, env)
              ELSE IF env.type = "invalid" THEN onInvalid(cs)
              ELSE IF env.type = "hash" THEN onHash(cs, env)
              ELSE IF env.type = "still-ok" THEN onStillOk(cs)
              ELSE IF env.type = "ok" THEN onOk(cs)
              ELSE IF env.type = "warnings" THEN onWarnings(cs, env)
              ELSE IF env.type = "errors" THEN onErrors(cs, env)
              ELSE IF env.type = "static-changed" THEN onStaticChanged(cs)
              ELSE cs
    IN [c1 EXCEPT !.handled = @ + 1]

\* the client after the messages of seq, in order
RECURSIVE ClientAfter(_, _)
ClientAfter(cs, seq) ==
    IF seq = <<>> THEN cs ELSE ClientAfter(onSocketMessage(cs, Head(seq)), Tail(seq))

\* the hash the page may have been built with
ClientHashes == {"h0", "h1"}

----------------------------------------------------------------------------
(* The browser client: the reconnecting socket of client-src/socket.ts *)

\* let maxRetries = 10
DefaultMaxRetries == 10

RECURSIVE Pow2(_)
Pow2(n) == IF n = 0 THEN 1 ELSE 2 * Pow2(n - 1)

\* a delay that does not grow with the retry counter
retryInMsFlat(retries, jitter) == 1000 + jitter

\* 1000 * Math.pow(2, retries) + Math.random() * 100, with jitter standing
\* for Math.random() * 100
retryInMs(retries, jitter) == 1000 * Pow2(retries) + jitter

\* values of Math.random() * 100, which lies in [0, 100)
Jitters == {0, 37, 99}

\* a close that always invokes the handler
CloseHandlerRunsAlways(retries) == TRUE

\* if (retries === 0) handlers.close()
CloseHandlerRuns(retries) == retries = 0

\* the module state right after socket(url, handlers, reconnect) was first
\* called.  attempts, closeCalls, opened and timers are history fields: the
\* reconnections started and the close-handler calls since the last open
\* (or since the start), whether a connection has ever opened, and the
\* timers set by setTimeout that have neither fired nor been cleared.
SocketStart(reconnect) ==
    [retries |-> 0, maxRetries |-> DefaultMaxRetries, client |-> "connecting",
     timeout |-> "undefined", reconnect |-> reconnect, delay |-> 0,
     attempts |-> 0, closeCalls |-> 0, opened |-> FALSE, timers |-> 0]

----------------------------------------------------------------------------
(* The relay: Server.createWebSocketServer and the compiler hooks *)

Conns == 1..MaxConns

\* verdict, pings, ponged and terminated are history fields: the branch the
\* connection handler took, the heartbeat ticks that visited the connection,
\* whether it ever answered a ping, whether terminate() was called on it
IdleConn ==
    [state |-> "idle", readyState |-> 0, isAlive |-> "undefined",
     received |-> <<>>, verdict |-> "none",
     pings |-> 0, ponged |-> FALSE, terminated |-> FALSE]

NoProbe == [op |-> "none"]

Init ==
    /\ options \in RelayOptions
    /\ webSocketServer = "undefined"
    /\ clients = <<>>
    /\ conn = [c \in Conns |-> IdleConn]
    /\ stats = NoStats
    /\ currentHash = "undefined"
    /\ builds = 0
    /\ notices = 0
    /\ probe = NoProbe
    /\ interval = "undefined"
    /\ socket = SocketStart(NoReconnect)
    /\ page = ClientInit("h0")

\* a lookup that falls back to WebsocketServer
getServerTransportOrWs(o) ==
    [found |-> TRUE,
     implementation |-> IF o.transport \in {"ws", "sockjs", "custom"}
                        THEN o.transport ELSE "ws"]

\* the class to construct: 'ws', 'sockjs', a class or a loadable module
\* ("custom"); anything else is not found and makes the function throw
getServerTransport(o) ==
    IF o.transport \in {"ws", "sockjs", "custom"}
    THEN [found |-> TRUE, implementation |-> o.transport]
    ELSE [found |-> FALSE, implementation |-> "undefined"]

\* start(): createWebSocketServer() once the HTTP server listens.  When
\* getServerTransport throws, this.webSocketServer is not assigned, no
\* listener is registered and start() rejects.  The WebsocketServer
\* constructor starts the heartbeat timer.
CreateWebSocketServer ==
    /\ webSocketServer = "undefined"
    /\ LET t == getServerTransport(options) IN
       IF t.found
       THEN /\ webSocketServer' = "up"
            /\ interval' = IF t.implementation = "ws" THEN "running" ELSE interval
            /\ probe' = NoProbe
       ELSE /\ UNCHANGED <<webSocketServer, interval>>
            /\ probe' = [op |-> "start", error |-> TRUE]
    /\ UNCHANGED <<socket, page, options, clients, conn, stats, currentHash, builds, notices>>

\* the backend's own 'connection' listener, registered first; a custom
\* transport registers its clients the way SockJSServer does
BackendOnConnection(o, cn, c) ==
    [cn EXCEPT ![c].state = "connected",
               ![c].readyState = OPEN,
               ![c].isAlive = IF o.transport = "ws" THEN "true" ELSE @]

\* the gate without the same-origin check
GatePassesNoSameOrigin(o, req) ==
    /\ req.hasHeaders
    /\ isValidHost(o, req.headers, "host", TRUE)
    /\ isValidHost(o, req.headers, "origin", TRUE)

\* the validation gate of the relay's 'connection' listener
GatePasses(o, req) ==
    /\ req.hasHeaders
    /\ isValidHost(o, req.headers, "host", TRUE)
    /\ isValidHost(o, req.headers, "origin", TRUE)
    /\ isSameOrigin(o, req.headers)

\* client.close(): the close handshake starts, the socket is no longer OPEN
ClientClose(cn, c) ==
    IF cn[c].readyState = OPEN THEN [cn EXCEPT ![c].readyState = CLOSING] ELSE cn

RejectConnection(cn, c) ==
    LET c1 == sendMessage(cn, <<c>>, Envelope("error", InvalidHostOriginMessage, NoParams))
    IN [ClientClose(c1, c) EXCEPT ![c].verdict = "rejected"]

\* the flags with liveReload sent before hot
InitialFlagsLiveReloadFirst(o, cn, c) ==
    LET c1 == IF o.liveReload
              THEN sendMessage(cn, <<c>>, Envelope("liveReload", NoData, NoParams)) ELSE cn
        c2 == IF o.hot THEN sendMessage(c1, <<c>>, Envelope("hot", NoData, NoParams)) ELSE c1
        c3 == IF o.client.enabled /\ o.client.progress
              THEN sendMessage(c2, <<c>>, Envelope("progress", <<"true">>, NoParams)) ELSE c2
        c4 == IF o.client.enabled /\ o.client.reconnect
              THEN sendMessage(c3, <<c>>, Envelope("reconnect", <<"true">>, NoParams)) ELSE c3
        c5 == IF o.client.enabled /\ o.client.overlay
              THEN sendMessage(c4, <<c>>, Envelope("overlay", <<"true">>, NoParams)) ELSE c4
    IN [c5 EXCEPT ![c].verdict = "trusted"]

\* hot, liveReload, progress, reconnect, overlay, in this order
InitialFlags(o, cn, c) ==
    LET c1 == IF o.hot THEN sendMessage(cn, <<c>>, Envelope("hot", NoData, NoParams)) ELSE cn
        c2 == IF o.liveReload
              THEN sendMessage(c1, <<c>>, Envelope("liveReload", NoData, NoParams)) ELSE c1
        c3 == IF o.client.enabled /\ o.client.progress
              THEN sendMessage(c2, <<c>>, Envelope("progress", <<"true">>, NoParams)) ELSE c2
        c4 == IF o.client.enabled /\ o.client.reconnect
              THEN sendMessage(c3, <<c>>, Envelope("reconnect", <<"true">>, NoParams)) ELSE c3
        c5 == IF o.client.enabled /\ o.client.overlay
              THEN sendMessage(c4, <<c>>, Envelope("overlay", <<"true">>, NoParams)) ELSE c4
    IN [c5 EXCEPT ![c].verdict = "trusted"]

\* the transport emits 'connection' for connection c with request req
Connection(c, req) ==
    /\ webSocketServer = "up"
    /\ conn[c].state = "idle"
    /\ \A d \in Conns : d < c => conn[d].state # "idle"
    /\ req.hasHeaders \/ options.transport = "custom"
    /\ clients' = Append(clients, c)
    /\ probe' = [op |-> "connection", c |-> c, req |-> req]
    /\ LET c0 == BackendOnConnection(options, conn, c) IN
       IF ~GatePasses(options, req)
       THEN /\ conn' = RejectConnection(c0, c)
            /\ UNCHANGED currentHash
       ELSE LET c1 == InitialFlags(options, c0, c) IN
            IF ~stats.defined
            THEN /\ conn' = c1
                 /\ UNCHANGED currentHash
            ELSE LET r == sendStats(c1, currentHash, <<c>>, stats, TRUE) IN
                 /\ conn' = r.conn
                 /\ currentHash' = r.currentHash
    /\ UNCHANGED <<interval, socket, page, options, webSocketServer, stats, builds, notices>>

\* the transport reports that connection c is closed: the 'close' listener
CloseEvent(c) ==
    /\ conn[c].state = "connected"
    /\ conn[c].readyState \in {OPEN, CLOSING}
    /\ conn' = [conn EXCEPT ![c].readyState = CLOSED]
    /\ clients' = OnClientClose(clients, c)
    /\ probe' = NoProbe
    /\ UNCHANGED <<interval, socket, page, options, webSocketServer, stats, currentHash, builds, notices>>

\* a broadcast of one envelope to the registry, if the relay exists
\* a broadcast that forgets the hash last sent
BroadcastForgetsHash(type, data) ==
    /\ notices < MaxNotices
    /\ notices' = notices + 1
    /\ conn' = IF webSocketServer = "up"
               THEN sendMessage(conn, clients, Envelope(type, data, NoParams))
               ELSE conn
    /\ currentHash' = "undefined"
    /\ probe' = NoProbe
    /\ UNCHANGED <<interval, socket, page, options, webSocketServer, clients, stats, builds>>

Broadcast(type, data) ==
    /\ notices < MaxNotices
    /\ notices' = notices + 1
    /\ conn' = IF webSocketServer = "up"
               THEN sendMessage(conn, clients, Envelope(type, data, NoParams))
               ELSE conn
    /\ probe' = NoProbe
    /\ UNCHANGED <<interval, socket, page, options, webSocketServer, clients, stats, currentHash, builds>>

\* compiler.hooks.invalid
CompilerInvalid == Broadcast("invalid", NoData)

\* the ProgressPlugin callback, installed when client.progress is set
ProgressUpdate ==
    /\ options.client.enabled /\ options.client.progress
    /\ Broadcast("progress-update", <<"50">>)

\* a watched static file changed, listened to when liveReload is on
StaticChanged ==
    /\ options.liveReload
    /\ Broadcast("static-changed", <<"/", "app">>)

\* the done listener without this.stats = stats
DoneHookKeepsStats(r) ==
    /\ builds' = builds + 1
    /\ IF webSocketServer = "up"
       THEN LET s == sendStats(conn, currentHash, clients, r, FALSE) IN
            /\ conn' = s.conn
            /\ currentHash' = s.currentHash
       ELSE UNCHANGED <<conn, currentHash>>
    /\ probe' = NoProbe
    /\ UNCHANGED <<interval, socket, page, options, webSocketServer, clients, notices, stats>>

\* the done listener calling sendStats with force set
DoneHookForced(r) ==
    /\ builds' = builds + 1
    /\ IF webSocketServer = "up"
       THEN LET s == sendStats(conn, currentHash, clients, r, TRUE) IN
            /\ conn' = s.conn
            /\ currentHash' = s.currentHash
       ELSE UNCHANGED <<conn, currentHash>>
    /\ stats' = r
    /\ probe' = NoProbe
    /\ UNCHANGED <<interval, socket, page, options, webSocketServer, clients, notices>>

\* the listener tapped on compiler.hooks.done
DoneHook(r) ==
    /\ builds' = builds + 1
    /\ IF webSocketServer = "up"
       THEN LET s == sendStats(conn, currentHash, clients, r, FALSE) IN
            /\ conn' = s.conn
            /\ currentHash' = s.currentHash
       ELSE UNCHANGED <<conn, currentHash>>
    /\ stats' = r
    /\ probe' = NoProbe
    /\ UNCHANGED <<interval, socket, page, options, webSocketServer, clients, notices>>

\* compiler.hooks.done
CompilerDone(r) == builds < MaxBuilds /\ DoneHook(r)

Next ==
    \/ CreateWebSocketServer
    \/ \E c \in Conns, req \in ConnectionRequests : Connection(c, req)
    \/ \E c \in Conns : CloseEvent(c)
    \/ CompilerInvalid
    \/ ProgressUpdate
    \/ StaticChanged
    \/ \E r \in BuildResults : CompilerDone(r)

Spec == Init /\ [][Next]_vars

----------------------------------------------------------------------------------------------------------------------------------------
(* The relay over several builds: the initial burst and the stats broadcasts *)

RelayOptionFlags(t, hot, liveReload, progress, reconnect, overlay) ==
    [allowedHosts |-> StringValue("auto"), host |-> Undefined, transport |-> t,
     hot |-> hot, liveReload |-> liveReload,
     client |-> [enabled |-> TRUE, webSocketURL |-> WebSocketURLObject(Undefined),
                 progress |-> progress, reconnect |-> reconnect, overlay |-> overlay]]

BuildsOptions ==
    {RelayOptionFlags("ws", TRUE, TRUE, TRUE, TRUE, TRUE),
     RelayOptionFlags("ws", FALSE, TRUE, FALSE, TRUE, FALSE),
     RelayOptionFlags("sockjs", TRUE, FALSE, TRUE, FALSE, TRUE),
     RelayOptionFlags("sockjs", FALSE, FALSE, FALSE, FALSE, FALSE),
     RelayOptionFlags("custom", TRUE, TRUE, FALSE, FALSE, TRUE)}

\* one request the gate trusts and one it rejects
BuildsRequests ==
    {Request(TRUE, Headers(WithPort(localhost), Http(WithPort(localhost)))),
     Request(TRUE, Headers(WithPort(localhost), Http(evilCom)))}

BuildsResults ==
    {BuildResult("h1", <<>>, <<>>), BuildResult("h2", <<"w1">>, <<>>),
     BuildResult("h1", <<>>, <<"e1">>), BuildResult("h2", <<"w1">>, <<"e1">>)}

InitBuilds ==
    /\ options \in BuildsOptions
    /\ webSocketServer = "undefined"
    /\ clients = <<>>
    /\ conn = [c \in Conns |-> IdleConn]
    /\ stats = NoStats
    /\ currentHash = "undefined"
    /\ builds = 0
    /\ notices = 0
    /\ probe = NoProbe
    /\ interval = "undefined"
    /\ socket = SocketStart(NoReconnect)
    /\ page = ClientInit("h0")

\* compiler.hooks.done, up to MaxDone builds
Done(r) == builds < MaxDone /\ DoneHook(r)

NextBuilds ==
    \/ CreateWebSocketServer
    \/ \E c \in Conns, req \in BuildsRequests : Connection(c, req)
    \/ \E c \in Conns : CloseEvent(c)
    \/ CompilerInvalid
    \/ \E r \in BuildsResults : Done(r)

SpecBuilds == InitBuilds /\ [][NextBuilds]_vars

----------------------------------------------------------------------------
(* The relay's lifecycle: the heartbeat of the native-socket backend and     *)
(* Server.stop()                                                             *)

\* "unknown" is a webSocketServer.type that names no implementation
LifecycleOptions ==
    {RelayOptionFlags("ws", TRUE, TRUE, TRUE, TRUE, TRUE),
     RelayOptionFlags("sockjs", TRUE, TRUE, TRUE, TRUE, TRUE),
     RelayOptionFlags("custom", TRUE, TRUE, TRUE, TRUE, TRUE),
     RelayOptionFlags("unknown", TRUE, TRUE, TRUE, TRUE, TRUE)}

LifecycleBuilds == {BuildResult("h1", <<>>, <<>>), BuildResult("h2", <<"w1">>, <<"e1">>)}

InitLifecycle ==
    /\ options \in LifecycleOptions
    /\ webSocketServer = "undefined"
    /\ clients = <<>>
    /\ conn = [c \in Conns |-> IdleConn]
    /\ stats = NoStats
    /\ currentHash = "undefined"
    /\ builds = 0
    /\ notices = 0
    /\ probe = NoProbe
    /\ interval = "undefined"
    /\ socket = SocketStart(NoReconnect)
    /\ page = ClientInit("h0")

\* client.terminate(): the socket is destroyed, 'close' is emitted later;
\* SockJSServer aliases terminate to close
Terminate(cn, c) ==
    [cn EXCEPT ![c].readyState = IF @ = OPEN THEN CLOSING ELSE @,
               ![c].terminated = TRUE]

\* a heartbeat that pings and never terminates
RECURSIVE HeartbeatOnlyPings(_, _)
HeartbeatOnlyPings(cn, list) ==
    IF list = <<>> THEN cn
    ELSE LET c == Head(list)
         IN HeartbeatOnlyPings([cn EXCEPT ![c].isAlive = "false", ![c].pings = @ + 1],
                               Tail(list))

\* a heartbeat that terminates every connection it pinged before, whether
\* or not a pong came back
RECURSIVE HeartbeatIgnoresPong(_, _)
HeartbeatIgnoresPong(cn, list) ==
    IF list = <<>> THEN cn
    ELSE LET c  == Head(list)
             c1 == IF cn[c].pings > 0
                   THEN Terminate(cn, c)
                   ELSE [cn EXCEPT ![c].isAlive = "false"]
         IN HeartbeatIgnoresPong([c1 EXCEPT ![c].pings = @ + 1], Tail(list))

\* one run of the setInterval callback over this.clients
RECURSIVE Heartbeat(_, _)
Heartbeat(cn, list) ==
    IF list = <<>> THEN cn
    ELSE LET c  == Head(list)
             c1 == IF cn[c].isAlive = "false"
                   THEN Terminate(cn, c)
                   ELSE [cn EXCEPT ![c].isAlive = "false"]
         IN Heartbeat([c1 EXCEPT ![c].pings = @ + 1], Tail(list))

\* the heartbeat timer of WebsocketServer fires
HeartbeatTick ==
    /\ interval = "running"
    /\ \A i \in 1..Len(clients) : conn[clients[i]].pings < MaxTicks
    /\ conn' = Heartbeat(conn, clients)
    /\ probe' = [op |-> "tick"]
    /\ UNCHANGED <<interval, socket, page, options, webSocketServer, clients, stats, currentHash, builds, notices>>

\* the peer answers the outstanding ping: client.on('pong')
Pong(c) ==
    /\ options.transport = "ws"
    /\ conn[c].state = "connected"
    /\ conn[c].readyState = OPEN
    /\ conn[c].isAlive = "false"
    /\ conn' = [conn EXCEPT ![c].isAlive = "true", ![c].ponged = TRUE]
    /\ probe' = NoProbe
    /\ UNCHANGED <<interval, socket, page, options, webSocketServer, clients, stats, currentHash, builds, notices>>

RECURSIVE TerminateAll(_, _)
TerminateAll(cn, list) ==
    IF list = <<>> THEN cn ELSE TerminateAll(Terminate(cn, Head(list)), Tail(list))

\* whether implementation.close(callback) runs the callback before it
\* returns: SockJSServer's replacement does, ws (noServer, no client
\* tracking) defers it to the next tick, a custom class may do either
CloseCallbackIsSynchronous(t) ==
    IF t = "ws" THEN {FALSE} ELSE IF t = "sockjs" THEN {TRUE} ELSE BOOLEAN

\* Server.stop(), the part about the relay.  A synchronous callback clears
\* this.webSocketServer before the loop reads this.webSocketServer.clients:
\* the TypeError is thrown inside the executor of an already resolved
\* promise and is dropped, so nothing is terminated and the list is kept.
\* The 'close' event of the ws implementation runs the listener that
\* clears the heartbeat timer, ahead of stop()'s callback.
StopKeepsInterval ==
    /\ webSocketServer = "up"
    /\ webSocketServer' = "null"
    /\ \E sync \in CloseCallbackIsSynchronous(options.transport) :
          IF sync
          THEN UNCHANGED <<conn, clients>>
          ELSE /\ conn' = TerminateAll(conn, clients)
               /\ clients' = <<>>
    /\ probe' = [op |-> "stop", clients |-> clients]
    /\ UNCHANGED <<interval, socket, page, options, stats, currentHash, builds, notices>>

Stop ==
    /\ webSocketServer = "up"
    /\ webSocketServer' = "null"
    /\ \E sync \in CloseCallbackIsSynchronous(options.transport) :
          IF sync
          THEN UNCHANGED <<conn, clients>>
          ELSE /\ conn' = TerminateAll(conn, clients)
               /\ clients' = <<>>
    /\ interval' = IF interval = "running" THEN "cleared" ELSE interval
    /\ probe' = [op |-> "stop", clients |-> clients]
    /\ UNCHANGED <<socket, page, options, stats, currentHash, builds, notices>>

NextLifecycle ==
    \/ CreateWebSocketServer
    \/ \E c \in Conns, req \in BuildsRequests : Connection(c, req)
    \/ \E c \in Conns : CloseEvent(c)
    \/ CompilerInvalid
    \/ \E r \in LifecycleBuilds : CompilerDone(r)
    \/ HeartbeatTick
    \/ \E c \in Conns : Pong(c)
    \/ Stop

SpecLifecycle == InitLifecycle /\ [][NextLifecycle]_vars

----------------------------------------------------------------------------
(* The registry with one connection more: connects, closes, heartbeat and *)
(* stop, without builds                                                     *)

RegistryConns == 1..(MaxConns + 1)

RegistryOptions ==
    {RelayOptionFlags("ws", TRUE, TRUE, TRUE, TRUE, TRUE),
     RelayOptionFlags("sockjs", TRUE, TRUE, TRUE, TRUE, TRUE),
     RelayOptionFlags("custom", TRUE, TRUE, TRUE, TRUE, TRUE)}

InitRegistry ==
    /\ options \in RegistryOptions
    /\ webSocketServer = "undefined"
    /\ clients = <<>>
    /\ conn = [c \in RegistryConns |-> IdleConn]
    /\ stats = NoStats
    /\ currentHash = "undefined"
    /\ builds = 0
    /\ notices = 0
    /\ probe = NoProbe
    /\ interval = "undefined"
    /\ socket = SocketStart(NoReconnect)
    /\ page = ClientInit("h0")

NextRegistry ==
    \/ CreateWebSocketServer
    \/ \E c \in RegistryConns, req \in BuildsRequests : Connection(c, req)
    \/ \E c \in RegistryConns : CloseEvent(c)
    \/ HeartbeatTick
    \/ \E c \in RegistryConns : Pong(c)
    \/ Stop

SpecRegistry == InitRegistry /\ [][NextRegistry]_vars

----------------------------------------------------------------------------
(* The browser client on its own: the socket's callbacks, the timer and the *)
(* page's message handlers                                                  *)

ReconnectValues == {NoReconnect, Reconnect(0), Reconnect(1), Reconnect(2)}

\* pages as loaded: each built with hash h0, with the resource query and
\* location.search settings that reloadApp and the hot / liveReload
\* handlers read
ClientPages ==
    {PageOf("h0", "undefined", "undefined", TRUE, TRUE),
     PageOf("h0", "true", "undefined", TRUE, TRUE),
     PageOf("h0", "undefined", "true", TRUE, TRUE),
     PageOf("h0", "true", "true", FALSE, TRUE),
     PageOf("h0", "undefined", "true", TRUE, FALSE)}

\* what a relay may send to the page
ClientEnvelopes ==
    {Envelope("liveReload", NoData, NoParams),
     Envelope("overlay", <<"true">>, NoParams),
     Envelope("reconnect", <<5>>, NoParams),
     Envelope("hash", <<"h0">>, NoParams),
     Envelope("hash", <<"h1">>, NoParams),
     Envelope("ok", NoData, NoParams),
     Envelope("still-ok", NoData, NoParams),
     Envelope("warnings", <<"w1">>, NoParams),
     Envelope("warnings", <<"w1">>, "preventReloading"),
     Envelope("errors", <<"e1">>, NoParams)}

InitClient ==
    /\ options = RelayOptionFlags("ws", TRUE, TRUE, TRUE, TRUE, TRUE)
    /\ webSocketServer = "undefined"
    /\ clients = <<>>
    /\ conn = [c \in Conns |-> IdleConn]
    /\ stats = NoStats
    /\ currentHash = "undefined"
    /\ builds = 0
    /\ notices = 0
    /\ probe = NoProbe
    /\ interval = "undefined"
    /\ \E r \in ReconnectValues, p \in ClientPages :
          /\ page = [p EXCEPT !.reconnect = r]
          /\ socket = SocketStart(page.reconnect)

Served == UNCHANGED <<interval, options, webSocketServer, clients, conn, stats, currentHash,
                      builds, notices>>

\* an onOpen callback that leaves the retry counter alone
SocketOpenKeepsRetries ==
    /\ socket.client = "connecting"
    /\ socket' = [socket EXCEPT
                    !.timers = IF socket.timeout = "pending" THEN @ - 1 ELSE @,
                    !.timeout = IF @ = "undefined" THEN @ ELSE "cleared",
                    !.maxRetries = IF socket.reconnect.defined
                                   THEN socket.reconnect.value ELSE @,
                    !.client = "open",
                    !.attempts = 0, !.closeCalls = 0, !.opened = TRUE]
    /\ probe' = [op |-> "open", retries |-> socket.retries]
    /\ UNCHANGED page
    /\ Served

\* client.onOpen callback
SocketOpen ==
    /\ socket.client = "connecting"
    /\ socket' = [socket EXCEPT
                    !.retries = 0,
                    !.timers = IF socket.timeout = "pending" THEN @ - 1 ELSE @,
                    !.timeout = IF @ = "undefined" THEN @ ELSE "cleared",
                    !.maxRetries = IF socket.reconnect.defined
                                   THEN socket.reconnect.value ELSE @,
                    !.client = "open",
                    !.attempts = 0, !.closeCalls = 0, !.opened = TRUE]
    /\ probe' = [op |-> "open", retries |-> socket.retries]
    /\ UNCHANGED page
    /\ Served

\* client.onClose callback, of a connection that was open or never opened
SocketClose(jitter) ==
    /\ socket.client \in {"connecting", "open"}
    /\ LET runs  == CloseHandlerRuns(socket.retries)
           again == socket.retries < socket.maxRetries
       IN /\ socket' = [socket EXCEPT
                          !.client = "null",
                          !.closeCalls = IF runs THEN @ + 1 ELSE @,
                          !.delay = IF again THEN retryInMs(socket.retries, jitter) ELSE @,
                          !.retries = IF again THEN @ + 1 ELSE @,
                          !.timeout = IF again THEN "pending" ELSE @,
                          !.timers = IF again THEN @ + 1 ELSE @]
          /\ page' = IF runs THEN onClose(page) ELSE page
          /\ probe' = [op |-> "close", handler |-> runs, scheduled |-> again,
                       retries |-> socket.retries]
    /\ Served

\* a timer callback that creates no client
TimerFiresWithoutSocket ==
    /\ socket.timeout = "pending"
    /\ socket' = [socket EXCEPT !.timeout = "fired", !.timers = @ - 1]
    /\ probe' = [op |-> "timer"]
    /\ UNCHANGED page
    /\ Served

\* the reconnect timer fires: socket(url, handlers, reconnect)
TimerFires ==
    /\ socket.timeout = "pending"
    /\ socket' = [socket EXCEPT !.client = "connecting", !.timeout = "fired",
                                !.attempts = @ + 1, !.timers = @ - 1]
    /\ probe' = [op |-> "timer"]
    /\ UNCHANGED page
    /\ Served

\* an onMessage callback whose 'reconnect' handler also reaches the socket
ClientMessageSharesReconnect(env) ==
    /\ socket.client = "open"
    /\ page.handled < MaxMessages
    /\ page' = onSocketMessage(page, env)
    /\ probe' = [op |-> "message", env |-> env, before |-> page]
    /\ socket' = [socket EXCEPT !.reconnect = page'.reconnect]
    /\ Served

\* client.onMessage callback
ClientMessage(env) ==
    /\ socket.client = "open"
    /\ page.handled < MaxMessages
    /\ page' = onSocketMessage(page, env)
    /\ probe' = [op |-> "message", env |-> env, before |-> page]
    /\ UNCHANGED socket
    /\ Served

\* the page's beforeunload listener
BeforeUnload ==
    /\ ~page.isUnloading
    /\ page' = [page EXCEPT !.isUnloading = TRUE]
    /\ probe' = [op |-> "beforeunload"]
    /\ UNCHANGED socket
    /\ Served

NextClient ==
    \/ SocketOpen
    \/ \E jitter \in Jitters : SocketClose(jitter)
    \/ TimerFires
    \/ \E env \in ClientEnvelopes : ClientMessage(env)
    \/ BeforeUnload

SpecClient == InitClient /\ [][NextClient]_vars

----------------------------------------------------------------------------
(* The reconnecting socket against a server that starts and stops: a *)
(* connection attempt opens while the relay is up and fails otherwise   *)

\* the server takes the connection: the transport reports open
Accepted ==
    /\ webSocketServer = "up"
    /\ SocketOpen

\* nothing answers the attempt: the transport reports close
Refused(jitter) ==
    /\ webSocketServer # "up"
    /\ socket.client = "connecting"
    /\ SocketClose(jitter)

\* an open connection is lost
Dropped(jitter) ==
    /\ socket.client = "open"
    /\ SocketClose(jitter)

\* an open connection to a server that is gone is lost
DroppedByStop(jitter) ==
    /\ webSocketServer # "up"
    /\ Dropped(jitter)

NextReconnect ==
    \/ CreateWebSocketServer
    \/ Stop
    \/ Accepted
    \/ \E jitter \in Jitters : Refused(jitter)
    \/ \E jitter \in Jitters : Dropped(jitter)
    \/ TimerFires

\* a timer that is set fires, an attempt is answered or fails, and a
\* connection does not outlive its server for ever
SpecReconnect ==
    /\ InitClient
    /\ [][NextReconnect]_vars
    /\ WF_vars(TimerFires)
    /\ WF_vars(Accepted)
    /\ WF_vars(\E jitter \in Jitters : Refused(jitter))
    /\ WF_vars(\E jitter \in Jitters : DroppedByStop(jitter))

----------------------------------------------------------------------------
(* The validator on its own, and the host-header-check middleware *)

\* Host header values paired with every Origin value in isSameOrigin calls
HostHeaderValues ==
    {Undefined, <<>>, exampleCom, WithPort(exampleCom), fooExampleCom, evilCom,
     WithPort(localhost), WithPort(ipv4), <<":", "8080">>,
     <<"EXAMPLE", ".", "com">>}

AuthorityValues == {Undefined, WithPort(exampleCom), WithPort(localhost), evilCom}

HeaderNames == {"host", "origin", ":authority"}

HttpHeaders(authority, host) == (":authority" :> authority) @@ ("host" :> host)

InitValidator ==
    /\ options \in ValidatorOptions
    /\ webSocketServer = "undefined"
    /\ clients = <<>>
    /\ conn = [c \in Conns |-> IdleConn]
    /\ stats = NoStats
    /\ currentHash = "undefined"
    /\ builds = 0
    /\ notices = 0
    /\ probe = NoProbe
    /\ interval = "undefined"
    /\ socket = SocketStart(NoReconnect)
    /\ page = ClientInit("h0")

Unprobed == UNCHANGED <<interval, socket, page, options, webSocketServer, clients, conn, stats, currentHash,
                        builds, notices>>

CallIsHostAllowed(value) ==
    /\ probe = NoProbe
    /\ probe' = [op |-> "isHostAllowed", value |-> value,
                 result |-> isHostAllowed(options, value)]
    /\ Unprobed

CallIsValidHost(headers, headerToCheck, validateHost) ==
    /\ probe = NoProbe
    /\ probe' = [op |-> "isValidHost", headers |-> headers, name |-> headerToCheck,
                 strict |-> validateHost,
                 result |-> isValidHost(options, headers, headerToCheck, validateHost)]
    /\ Unprobed

CallIsSameOrigin(headers) ==
    /\ probe = NoProbe
    /\ probe' = [op |-> "isSameOrigin", headers |-> headers,
                 result |-> isSameOrigin(options, headers)]
    /\ Unprobed

\* the response of a middleware: what it wrote and how often it called next
Response(statusCode, body, nextCalls) ==
    [statusCode |-> statusCode, body |-> body, nextCalls |-> nextCalls]

\* headers[':authority'] ? ':authority' : 'host'
HeaderName(headers) == IF Falsy(Get(headers, ":authority")) THEN "host" ELSE ":authority"

\* the middleware with the return after next() missing
hostHeaderCheckNoReturn(o, headers) ==
    IF isValidHost(o, headers, HeaderName(headers), TRUE)
    THEN Response(403, "Invalid Host header", 1)
    ELSE Response(403, "Invalid Host header", 0)

hostHeaderCheck(o, headers) ==
    IF isValidHost(o, headers, HeaderName(headers), TRUE)
    THEN Response(0, "", 1)
    ELSE Response(403, "Invalid Host header", 0)

\* a plain HTTP request reaches the host-header-check middleware
HostHeaderCheck(headers) ==
    /\ probe = NoProbe
    /\ probe' = [op |-> "host-header-check", headers |-> headers,
                 res |-> hostHeaderCheck(options, headers)]
    /\ Unprobed

\* values of the sec-fetch-mode and sec-fetch-site request headers
SecFetchModes == {Undefined, <<"no-cors">>, <<"cors">>}

SecFetchSites == {Undefined, <<"cross-site">>, <<"same-origin">>}

FetchHeaders(authority, host, mode, site) ==
    HttpHeaders(authority, host) @@ ("sec-fetch-mode" :> mode) @@ ("sec-fetch-site" :> site)

\* the middleware with the strict host check of host-header-check
crossOriginHeaderCheckStrict(o, headers) ==
    IF isValidHost(o, headers, HeaderName(headers), TRUE)
    THEN Response(0, "", 1)
    ELSE IF /\ Get(headers, "sec-fetch-mode") = <<"no-cors">>
            /\ Get(headers, "sec-fetch-site") = <<"cross-site">>
    THEN Response(403, "Cross-Origin request blocked", 0)
    ELSE Response(0, "", 1)

crossOriginHeaderCheck(o, headers) ==
    IF isValidHost(o, headers, HeaderName(headers), FALSE)
    THEN Response(0, "", 1)
    ELSE IF /\ Get(headers, "sec-fetch-mode") = <<"no-cors">>
            /\ Get(headers, "sec-fetch-site") = <<"cross-site">>
    THEN Response(403, "Cross-Origin request blocked", 0)
    ELSE Response(0, "", 1)

\* a plain HTTP request reaches the cross-origin-header-check middleware
CrossOriginHeaderCheck(headers) ==
    /\ probe = NoProbe
    /\ probe' = [op |-> "cross-origin-header-check", headers |-> headers,
                 res |-> crossOriginHeaderCheck(options, headers)]
    /\ Unprobed

NextValidator ==
    \/ \E v \in Hostnames \cup {<<>>} : CallIsHostAllowed(v)
    \/ \E n \in HeaderNames, v \in HeaderValues, strict \in BOOLEAN :
           CallIsValidHost((n :> v), n, strict)
    \/ \E h \in HostHeaderValues, g \in HeaderValues : CallIsSameOrigin(Headers(h, g))
    \/ \E a \in AuthorityValues, h \in HeaderValues : HostHeaderCheck(HttpHeaders(a, h))
    \/ \E a \in AuthorityValues, h \in HostHeaderValues,
          m \in SecFetchModes, t \in SecFetchSites :
           CrossOriginHeaderCheck(FetchHeaders(a, h, m, t))

SpecValidator == InitValidator /\ [][NextValidator]_vars

----------------------------------------------------------------------------
(* Properties of the validation gate of the relay (checked under Spec) *)

ErrorEnvelope == Envelope("error", InvalidHostOriginMessage, NoParams)

GotNonError(c) ==
    \E i \in 1..Len(conn[c].received) : conn[c].received[i].type # "error"

NotAll == options.allowedHosts # StringValue("all")

\* C1: a connection receives an envelope other than `error` only if it took
\* the trusted branch, and a connection event takes the trusted branch only
\* if its headers are present and isValidHost(host), isValidHost(origin) and
\* isSameOrigin all return true; every other connection event takes the
\* rejection branch and gets no initial burst.
C1_GateBeforeBurst ==
    /\ \A c \in Conns : GotNonError(c) => conn[c].verdict = "trusted"
    /\ probe.op = "connection" =>
          LET req == probe.req
              ok  == /\ req.hasHeaders
                     /\ isValidHost(options, req.headers, "host", TRUE)
                     /\ isValidHost(options, req.headers, "origin", TRUE)
                     /\ isSameOrigin(options, req.headers)
          IN /\ ok => conn[probe.c].verdict = "trusted"
             /\ ~ok => conn[probe.c].verdict = "rejected" /\ ~GotNonError(probe.c)

\* a connection passed the gate under an allow-list that is not the wildcard
\* and holds a non-error envelope of its initial burst
C1_Witness ==
    /\ probe.op = "connection"
    /\ NotAll
    /\ conn[probe.c].verdict = "trusted"
    /\ GotNonError(probe.c)

\* C2: a rejected connection holds exactly one envelope, the `error` envelope
\* with 'Invalid Host/Origin header', it is no longer open once its handler
\* has run, and no initial-burst envelope or later broadcast is added.
C2_RejectedGetsOnlyError ==
    \A c \in Conns :
        conn[c].verdict = "rejected" =>
            /\ conn[c].received = <<ErrorEnvelope>>
            /\ conn[c].readyState \in {CLOSING, CLOSED}

\* a broadcast was issued while a rejected connection was still closing and
\* still in the registry: the last step handled no connection, and the close
\* of the rejected connection has not been reported yet
C2_Witness ==
    /\ probe = NoProbe
    /\ \E c \in Conns :
          /\ conn[c].verdict = "rejected"
          /\ conn[c].readyState = CLOSING
          /\ InRegistry(c)

\* C3 as stated: under the native-socket and the fallback backend, no
\* rejected connection is ever an element of the registry.
C3_RejectedNeverRegistered ==
    options.transport \in {"ws", "sockjs"} =>
        \A c \in Conns : conn[c].verdict = "rejected" => ~InRegistry(c)

\* C3 as amended: the backend registers every connection before the relay
\* validates it; a rejected connection is in the registry only while it is
\* closing (never open, so no broadcast is sent to it) and is out of the
\* registry once its close has been handled.
C3_RejectedRegisteredOnlyWhileClosing ==
    \A c \in Conns :
        conn[c].verdict = "rejected" =>
            /\ InRegistry(c) => conn[c].readyState = CLOSING
            /\ conn[c].readyState = CLOSED => ~InRegistry(c)

\* a rejected connection sits in the registry, closing
C3_Witness ==
    \E c \in Conns :
        /\ options.transport \in {"ws", "sockjs"}
        /\ conn[c].verdict = "rejected"
        /\ InRegistry(c)
        /\ conn[c].readyState = CLOSING

HostnameLess(header) ==
    Falsy(header) \/ UrlParseHostname(WithSlashes(header)) \in {Null, <<>>}

\* C5: validation fails closed.  A connection without a headers object is
\* rejected whatever the allow-list is; unless allowedHosts is 'all', a
\* connection with a missing or hostname-less Host header or with a missing
\* Origin header is rejected; isSameOrigin is true for a request without an
\* Origin header exactly when allowedHosts is 'all'.
C5_FailsClosed ==
    /\ probe.op = "connection" =>
          LET req == probe.req IN
          /\ ~req.hasHeaders => conn[probe.c].verdict = "rejected"
          /\ (/\ NotAll
              /\ req.hasHeaders
              /\ \/ HostnameLess(Get(req.headers, "host"))
                 \/ Falsy(Get(req.headers, "origin")))
                => conn[probe.c].verdict = "rejected"
    /\ \A h \in HostHeaderValues, g \in {Undefined, <<>>} :
          isSameOrigin(options, Headers(h, g)) = ~NotAll

\* a connection without headers was rejected although allowedHosts is 'all'
C5_Witness ==
    /\ probe.op = "connection"
    /\ ~probe.req.hasHeaders
    /\ ~NotAll
    /\ conn[probe.c].verdict = "rejected"

----------------------------------------------------------------------------
(* Properties of the validator functions and of the host check middleware  *)
(* (checked under SpecValidator)                                           *)

\* the header values that name an IP literal, localhost or a subdomain of it
LoopbackHeaderValues == UNION {HeaderForms(h) : h \in {ipv4, ipv6, localhost, appLocalhost}}

\* C4 as stated: with allowedHosts not 'all' and an Origin header present,
\* isSameOrigin is true only if the Origin uses an always-allowed scheme, or
\* its hostname is allowed by isHostAllowed, or equals the Host hostname.
C4_SameOriginOnlyByOrigin ==
    (/\ probe.op = "isSameOrigin"
     /\ NotAll
     /\ ~Falsy(Get(probe.headers, "origin"))
     /\ probe.result)
    => LET originHeader == Get(probe.headers, "origin")
           hostHeader   == Get(probe.headers, "host")
           origin       == UrlParseHostname(originHeader)
       IN \/ DEFAULT_ALLOWED_PROTOCOLS(originHeader)
          \/ origin # Null /\ isHostAllowed(options, origin)
          \/ /\ origin # Null
             /\ ~Falsy(hostHeader)
             /\ origin = UrlParseHostname(WithSlashes(hostHeader))

\* C6: a header value whose hostname is an IPv4 or IPv6 literal, localhost
\* or a name under .localhost passes isValidHost in strict mode, whatever
\* the allow-list holds.
C6_LoopbackAlwaysValid ==
    (/\ probe.op = "isValidHost"
     /\ probe.strict
     /\ Get(probe.headers, probe.name) \in LoopbackHeaderValues)
    => probe.result

\* an IPv6 literal with a port passed the strict check under an empty list
C6_Witness ==
    /\ probe.op = "isValidHost"
    /\ probe.strict
    /\ Get(probe.headers, probe.name) = WithPort(InHeader(ipv6))
    /\ options.allowedHosts = ArrayValue(<<>>)
    /\ probe.result

IsDotEntry(e) == Len(e) >= 1 /\ e[1] = "."

\* entry e of the allow-list admits hostname v, by the rule of the claim
Admits(e, v) ==
    IF IsDotEntry(e) THEN v = Tail(e) \/ EndsWith(v, e) ELSE v = e

AllowList == options.allowedHosts.value

\* C7: under an allow-list array, isHostAllowed accepts every hostname some
\* entry admits: a '.'-entry admits its bare domain and every name ending in
\* the entry, any other entry only the equal hostname.  A hostname no entry
\* admits, such as one that ends with the bare domain without the '.'
\* boundary, is rejected (the configured public hostname aside).
C7_DotEntryIsSuffixWildcard ==
    (probe.op = "isHostAllowed" /\ options.allowedHosts.type = "array")
    => LET admitted == \E i \in 1..Len(AllowList) : Admits(AllowList[i], probe.value)
       IN /\ admitted => probe.result
          /\ probe.result =>
                admitted \/ probe.value = options.client.webSocketURL.hostname

\* notexample.com was rejected under the entry .example.com
C7_Witness ==
    /\ probe.op = "isHostAllowed"
    /\ options.allowedHosts = ArrayValue(<<<<".">> \o exampleCom>>)
    /\ probe.value = notExampleCom
    /\ ~probe.result

\* C8 as stated: with a hostname configured in client.webSocketURL,
\* isHostAllowed is true for that hostname.
C8_PublicHostnameAllowed ==
    (/\ probe.op = "isHostAllowed"
     /\ options.client.enabled
     /\ options.client.webSocketURL.hostname # Undefined
     /\ probe.value = options.client.webSocketURL.hostname)
    => probe.result

\* C9: with allowedHosts 'all', isHostAllowed, isValidHost (strict or not)
\* and isSameOrigin are true for every argument, absent headers included.
C9_WildcardAllowsAll ==
    (/\ probe.op \in {"isHostAllowed", "isValidHost", "isSameOrigin"}
     /\ options.allowedHosts = StringValue("all"))
    => probe.result

\* isValidHost passed for an absent header under the wildcard, non-strict
C9_Witness ==
    /\ probe.op = "isValidHost"
    /\ options.allowedHosts = StringValue("all")
    /\ Get(probe.headers, probe.name) = Undefined
    /\ ~probe.strict
    /\ probe.result

\* C10: the host-header-check middleware checks :authority when present and
\* Host otherwise, in strict mode; on failure it answers 403 with the body
\* 'Invalid Host header' and does not call next, on success it calls next
\* once and writes nothing.
C10_HostHeaderCheck ==
    probe.op = "host-header-check" =>
        LET a    == Get(probe.headers, ":authority")
            name == IF a # Undefined /\ a # <<>> THEN ":authority" ELSE "host"
        IN IF isValidHost(options, probe.headers, name, TRUE)
           THEN probe.res = [statusCode |-> 0, body |-> "", nextCalls |-> 1]
           ELSE probe.res = [statusCode |-> 403, body |-> "Invalid Host header",
                             nextCalls |-> 0]

\* a request with a valid Host but a bad :authority was answered 403
C10_Witness ==
    /\ probe.op = "host-header-check"
    /\ Get(probe.headers, ":authority") = evilCom
    /\ Get(probe.headers, "host") = WithPort(localhost)
    /\ probe.res.statusCode = 403
    /\ probe.res.nextCalls = 0

----------------------------------------------------------------------------
(* Stats broadcasts *)

Types(seq) == [i \in DOMAIN seq |-> seq[i].type]

Clean(r) == r.warnings = <<>> /\ r.errors = <<>>

\* a done step taken while the relay exists; stats' is the new result
DoneStep == builds' = builds + 1 /\ webSocketServer = "up"

\* connection c is one a broadcast reaches: registered and open
Reached(c) == InRegistry(c) /\ conn[c].readyState = OPEN

\* what the connection has received, and what it receives in this step
Gained(c) == SubSeq(conn'[c].received, Len(conn[c].received) + 1, Len(conn'[c].received))

KeepsReceived(c) ==
    /\ Len(conn'[c].received) >= Len(conn[c].received)
    /\ SubSeq(conn'[c].received, 1, Len(conn[c].received)) = conn[c].received

\* C11: a done event (sendStats without force) for a result with no warnings,
\* no errors and a hash equal to currentHash sends exactly one envelope,
\* 'still-ok', to every open registered connection, nothing to any other,
\* and leaves currentHash unchanged.
C11_StillOkOnUnchangedCleanBuild ==
    [][(DoneStep /\ Clean(stats') /\ stats'.hash = currentHash)
        => /\ currentHash' = currentHash
           /\ \A c \in Conns :
                /\ KeepsReceived(c)
                /\ Gained(c) = IF Reached(c)
                                THEN <<Envelope("still-ok", NoData, NoParams)>>
                                ELSE <<>>]_vars

\* the same clean build was broadcast twice to an open connection: its last
\* three envelopes are hash, ok, still-ok
C11_Witness ==
    \E c \in Conns :
        /\ conn[c].readyState = OPEN
        /\ builds = 2
        /\ Len(conn[c].received) >= 3
        /\ LET n == Len(conn[c].received) IN
           /\ conn[c].received[n - 2] = Envelope("hash", <<stats.hash>>, NoParams)
           /\ conn[c].received[n - 1].type = "ok"
           /\ conn[c].received[n].type = "still-ok"
        /\ currentHash = stats.hash

\* the number of flag envelopes the initial burst holds under options o
FlagCount(o) ==
    (IF o.hot THEN 1 ELSE 0) + (IF o.liveReload THEN 1 ELSE 0)
    + (IF o.client.enabled /\ o.client.progress THEN 1 ELSE 0)
    + (IF o.client.enabled /\ o.client.reconnect THEN 1 ELSE 0)
    + (IF o.client.enabled /\ o.client.overlay THEN 1 ELSE 0)

\* a connection has just been trusted
JustTrusted == probe.op = "connection" /\ conn[probe.c].verdict = "trusted"

\* the part of the burst after the flags
Snapshot == SubSeq(conn[probe.c].received, FlagCount(options) + 1,
                   Len(conn[probe.c].received))

\* C12: the forced sendStats of the initial burst never sends 'still-ok',
\* whatever the result and currentHash are: it sends 'hash' with the
\* result's hash, followed by 'ok' or by 'warnings' / 'errors', and records
\* the hash.
C12_ForcedNeverStillOk ==
    (JustTrusted /\ stats.defined)
    => /\ \A i \in 1..Len(conn[probe.c].received) :
            conn[probe.c].received[i].type # "still-ok"
       /\ Len(Snapshot) >= 2
       /\ Snapshot[1] = Envelope("hash", <<stats.hash>>, NoParams)
       /\ Snapshot[2].type \in {"ok", "warnings", "errors"}
       /\ currentHash = stats.hash

\* a connection joined after a clean build whose hash was already current
C12_Witness ==
    /\ JustTrusted
    /\ stats.defined
    /\ Clean(stats)
    /\ builds = 2
    /\ Types(Snapshot) = <<"hash", "ok">>

\* the envelope types of one build on the path that is not 'still-ok'
StatsTypes(r) ==
    <<"hash">> \o
    (IF Clean(r) THEN <<"ok">>
     ELSE (IF r.warnings # <<>> THEN <<"warnings">> ELSE <<>>)
          \o (IF r.errors # <<>> THEN <<"errors">> ELSE <<>>))

\* C13: a done event that is not answered by 'still-ok' sends to every open
\* registered connection exactly: one 'hash' carrying the result's hash,
\* then a single 'ok' if the result has no warnings and no errors, otherwise
\* 'warnings' (if there is a warning) followed by 'errors' (if there is an
\* error); 'ok' never comes with 'warnings' or 'errors'.  The forced
\* snapshot of the initial burst has the same shape.
C13_HashThenOkOrProblems ==
    /\ [][(DoneStep /\ ~(Clean(stats') /\ stats'.hash = currentHash))
            => /\ currentHash' = stats'.hash
               /\ \A c \in Conns :
                    /\ KeepsReceived(c)
                    /\ Reached(c) =>
                          /\ Types(Gained(c)) = StatsTypes(stats')
                          /\ Gained(c)[1].data = <<stats'.hash>>
                    /\ ~Reached(c) => Gained(c) = <<>>]_vars
    /\ []((JustTrusted /\ stats.defined) => Types(Snapshot) = StatsTypes(stats))

\* a build with a warning and an error reached an open connection
C13_Witness ==
    \E c \in Conns :
        /\ conn[c].readyState = OPEN
        /\ probe.op = "none"
        /\ builds >= 1
        /\ Len(conn[c].received) >= 3
        /\ LET n == Len(conn[c].received) IN
           /\ conn[c].received[n - 2].type = "hash"
           /\ conn[c].received[n - 1].type = "warnings"
           /\ conn[c].received[n].type = "errors"

\* the page reloads and hot updates of a client after a prefix of messages
Refreshes(h, seq, n) ==
    LET cs == ClientAfter(ClientInit(h), SubSeq(seq, 1, n))
    IN cs.reloads + cs.hotUpdates

\* position i of seq is the 'warnings' envelope of a build that also failed
Prevented(seq, i) == seq[i].type = "warnings" /\ seq[i].params = "preventReloading"

\* C14: the 'warnings' envelope of a result carries preventReloading exactly
\* when the result also has an error.  Such an envelope sits between the
\* 'hash' and the 'errors' envelope of its build, and a client that
\* processes the three reloads nothing and hot-updates nothing.
C14_PreventReloading ==
    /\ [][DoneStep =>
            \A c \in Conns : \A i \in 1..Len(Gained(c)) :
                Gained(c)[i].type = "warnings" =>
                    Gained(c)[i].params =
                        IF stats'.errors # <<>> THEN "preventReloading" ELSE NoParams]_vars
    /\ []((JustTrusted /\ stats.defined) =>
            \A i \in 1..Len(Snapshot) :
                Snapshot[i].type = "warnings" =>
                    Snapshot[i].params =
                        IF stats.errors # <<>> THEN "preventReloading" ELSE NoParams)
    /\ [](\A c \in Conns : \A i \in 1..Len(conn[c].received) :
            Prevented(conn[c].received, i) =>
                /\ i > 1 /\ conn[c].received[i - 1].type = "hash"
                /\ i < Len(conn[c].received) /\ conn[c].received[i + 1].type = "errors"
                /\ \A h \in ClientHashes :
                     Refreshes(h, conn[c].received, i + 1)
                         = Refreshes(h, conn[c].received, i - 2))

\* a client that had hot updates on received a failed build with a warning
C14_Witness ==
    \E c \in Conns :
        /\ conn[c].readyState = OPEN
        /\ options.hot
        /\ \E i \in 1..Len(conn[c].received) : Prevented(conn[c].received, i)
        /\ \E i \in 1..Len(conn[c].received) :
              conn[c].received[i].type = "warnings" /\ ~Prevented(conn[c].received, i)

----------------------------------------------------------------------------
(* The initial burst *)

\* the position of an envelope type in the burst
BurstRank(type) ==
    CASE type = "hot" -> 1
      [] type = "liveReload" -> 2
      [] type = "progress" -> 3
      [] type = "reconnect" -> 4
      [] type = "overlay" -> 5
      [] type = "hash" -> 6
      [] type \in {"ok", "warnings"} -> 7
      [] type = "errors" -> 8
      [] OTHER -> 0

Burst == conn[probe.c].received

HasType(seq, type) == \E i \in 1..Len(seq) : seq[i].type = type

\* C15: the envelopes of the burst of a newly trusted connection are in the
\* order hot, liveReload, progress, reconnect, overlay, forced stats; a flag
\* envelope is present exactly when its option is set, and nothing else is
\* in the burst.
C15_BurstOrder ==
    JustTrusted
    => /\ \A i \in 1..Len(Burst) : BurstRank(Burst[i].type) > 0
       /\ \A i, j \in 1..Len(Burst) :
            i < j => BurstRank(Burst[i].type) < BurstRank(Burst[j].type)
       /\ HasType(Burst, "hot") <=> options.hot
       /\ HasType(Burst, "liveReload") <=> options.liveReload
       /\ HasType(Burst, "progress") <=> (options.client.enabled /\ options.client.progress)
       /\ HasType(Burst, "reconnect") <=> (options.client.enabled /\ options.client.reconnect)
       /\ HasType(Burst, "overlay") <=> (options.client.enabled /\ options.client.overlay)
       /\ HasType(Burst, "hash") <=> stats.defined

\* a burst with all five flags and the snapshot of a failed build
C15_Witness ==
    /\ JustTrusted
    /\ Types(Burst) = <<"hot", "liveReload", "progress", "reconnect", "overlay",
                        "hash", "warnings", "errors">>

\* the full snapshot of result r: its hash, then its problems or 'ok'
SnapshotOf(r) ==
    <<Envelope("hash", <<r.hash>>, NoParams)>> \o
    (IF Clean(r) THEN <<Envelope("ok", NoData, NoParams)>>
     ELSE (IF r.warnings # <<>>
           THEN <<Envelope("warnings", r.warnings,
                           IF r.errors # <<>> THEN "preventReloading" ELSE NoParams)>>
           ELSE <<>>)
          \o (IF r.errors # <<>> THEN <<Envelope("errors", r.errors, NoParams)>> ELSE <<>>))

\* C16: the burst of a newly trusted connection ends with a stats snapshot
\* exactly when a build has completed before; the snapshot is that of the
\* stored result, which is the result of the last done event; a connection
\* that has had no 'hash' yet gets one from the next done event.
C16_SnapshotForLateJoiner ==
    /\ [](JustTrusted =>
            /\ HasType(Burst, "hash") <=> builds > 0
            /\ Snapshot = IF builds > 0 THEN SnapshotOf(stats) ELSE <<>>)
    /\ [][/\ builds' = builds => stats' = stats
          /\ DoneStep =>
                \A c \in Conns : Reached(c) =>
                    /\ Gained(c) \in {SnapshotOf(stats'),
                                      <<Envelope("still-ok", NoData, NoParams)>>}
                    /\ ~HasType(conn[c].received, "hash") => Gained(c) = SnapshotOf(stats')]_vars

\* a connection joined after two builds and got the snapshot of the second
C16_Witness ==
    /\ JustTrusted
    /\ builds = 2
    /\ stats.hash = "h2"
    /\ stats.errors # <<>>
    /\ Snapshot = SnapshotOf(stats)

----------------------------------------------------------------------------
(* Order of the builds *)

IsHash(e) == e.type = "hash"

\* the hashes a connection was sent, in the order it was sent them
HashesOf(c) == LET hs == SelectSeq(conn[c].received, IsHash)
               IN [i \in 1..Len(hs) |-> hs[i].data[1]]

\* C17: nothing is ever inserted before or removed from what a connection
\* has been sent, so the envelopes of an earlier build precede those of a
\* later one; every done event sends each open registered connection the
\* complete snapshot of its build, or 'still-ok' alone when the build is
\* clean and its hash is the current one; the last hash such a connection
\* was sent is the hash of the last completed build.
C17_BuildOrder ==
    /\ [][\A c \in Conns : KeepsReceived(c)]_vars
    /\ [][DoneStep =>
            \A c \in Conns : Reached(c) =>
                Gained(c) = IF Clean(stats') /\ stats'.hash = currentHash
                            THEN <<Envelope("still-ok", NoData, NoParams)>>
                            ELSE SnapshotOf(stats')]_vars
    /\ [](\A c \in Conns :
            (Reached(c) /\ conn[c].verdict = "trusted" /\ builds > 0)
            => /\ HashesOf(c) # <<>>
               /\ HashesOf(c)[Len(HashesOf(c))] = stats.hash
               /\ currentHash = stats.hash)

\* an open connection was sent the hash of a first build, then of a second
C17_Witness ==
    \E c \in Conns :
        /\ conn[c].readyState = OPEN
        /\ builds = 2
        /\ HashesOf(c) = <<"h1", "h2">>
        /\ conn[c].received[Len(conn[c].received)].type = "errors"

----------------------------------------------------------------------------
(* Close, heartbeat and stop *)

\* C18: a connection whose close event has been handled is not an element
\* of the registry, whichever side closed it and whether or not the
\* heartbeat or stop() terminated it, under every backend.
C18_ClosedNotRegistered ==
    \A c \in Conns : conn[c].readyState = CLOSED => ~InRegistry(c)

\* a connection the heartbeat terminated has closed and left the registry
\* of a relay that is still up
C18_Witness ==
    \E c \in Conns :
        /\ conn[c].readyState = CLOSED
        /\ conn[c].terminated
        /\ conn[c].verdict = "trusted"
        /\ webSocketServer = "up"
        /\ ~InRegistry(c)

\* C19: under the ws backend, a connection the heartbeat has visited twice
\* and that never answered a ping has been terminated: it is no longer
\* open, and once its close event is handled it is out of the registry.
C19_SilentPeerTerminated ==
    \A c \in Conns :
        (options.transport = "ws" /\ conn[c].pings >= 2 /\ ~conn[c].ponged)
        => /\ conn[c].terminated
           /\ conn[c].readyState \in {CLOSING, CLOSED}
           /\ conn[c].readyState = CLOSED => ~InRegistry(c)

\* a trusted connection that never answered, after its second tick, closed
C19_Witness ==
    \E c \in Conns :
        /\ options.transport = "ws"
        /\ conn[c].verdict = "trusted"
        /\ conn[c].pings = 2
        /\ ~conn[c].ponged
        /\ conn[c].readyState = CLOSED
        /\ ~InRegistry(c)

\* C20 as stated: right after stop(), under ws and sockjs, every connection
\* that was in the registry has been terminated, the registry is empty and
\* the relay reference is cleared.
C20_StopTerminatesAll ==
    (probe.op = "stop" /\ options.transport \in {"ws", "sockjs"})
    => /\ webSocketServer = "null"
       /\ clients = <<>>
       /\ \A i \in 1..Len(probe.clients) :
            /\ conn[probe.clients[i]].terminated
            /\ conn[probe.clients[i]].readyState # OPEN

----------------------------------------------------------------------------
(* The reconnecting socket *)

\* the reconnect budget the page was configured with
Budget(sk) == IF sk.reconnect.defined THEN sk.reconnect.value ELSE DefaultMaxRetries

\* C21 as stated: the reconnections started since the last open (or since
\* the start, when no connection has opened yet) never exceed the configured
\* budget, and with a budget of 0 no reconnect timer is ever set.
C21_AttemptsWithinBudget ==
    /\ socket.attempts <= Budget(socket)
    /\ Budget(socket) = 0 => socket.timeout = "undefined"

\* C22: a close that schedules a reconnect with the retry counter at n sets a
\* delay d with 1000 * 2^n <= d < 1000 * 2^n + 100 and leaves the counter at
\* n + 1; a close that schedules nothing leaves the counter alone.
C22_BackoffDelay ==
    probe.op = "close"
    => IF probe.scheduled
       THEN /\ socket.delay >= 1000 * Pow2(probe.retries)
            /\ socket.delay < 1000 * Pow2(probe.retries) + 100
            /\ socket.retries = probe.retries + 1
            /\ socket.timeout = "pending"
       ELSE socket.retries = probe.retries

\* the close of the third failed attempt in a row: 8000 ms and some jitter
C22_Witness ==
    /\ probe.op = "close"
    /\ probe.scheduled
    /\ probe.retries = 3
    /\ socket.delay = 8037

\* C23: a close invokes the close handler exactly when the retry counter is
\* zero, so the handler runs at most once between two opens and at most
\* once before the first open.
C23_CloseHandlerOnce ==
    /\ probe.op = "close" => (probe.handler <=> probe.retries = 0)
    /\ socket.closeCalls <= 1

\* the close of a failed reconnect attempt, after the handler ran once for
\* the close of a connection that had been open
C23_Witness ==
    /\ probe.op = "close"
    /\ ~probe.handler
    /\ probe.retries = 2
    /\ socket.opened
    /\ socket.closeCalls = 1

----------------------------------------------------------------------------
(* The page's handling of build results *)

\* the step just taken handled an envelope of the given type
Handled(type) == probe.op = "message" /\ probe.env.type = type

\* the message just handled made the page reload or emit a hot update
Triggered ==
    page.reloads + page.hotUpdates > probe.before.reloads + probe.before.hotUpdates

\* C24 as stated: an 'ok' triggers a reload or a hot update if and only if
\* the page is not unloading and previousHash is not contained in
\* currentHash.
C24_OkReloadsIffHashChanged ==
    Handled("ok")
    => (Triggered <=> (/\ ~probe.before.isUnloading
                       /\ probe.before.currentHash # probe.before.previousHash))

\* C24, amended: an 'ok' triggers exactly one reload or hot update if and
\* only if the page is not unloading, previousHash is not contained in
\* currentHash, and hot updating or live reload is both enabled and allowed
\* by location.search; with hot updating enabled and allowed the page is not
\* reloaded.  So the 'ok' after a 'hash' that repeats the page's hash
\* triggers nothing.
C24_OkReloads ==
    Handled("ok")
    => LET b   == probe.before
           hot == b.hot /\ b.allowToHot
           live == b.liveReload /\ b.allowToLiveReload
       IN /\ Triggered <=> (/\ ~b.isUnloading
                            /\ b.currentHash # b.previousHash
                            /\ (hot \/ live))
          /\ page.reloads + page.hotUpdates <= b.reloads + b.hotUpdates + 1
          /\ hot => page.reloads = b.reloads
          /\ b.currentHash = b.previousHash => ~Triggered

\* 'hash' with a new value, then 'ok', on a page with live reload: reloaded
C24_Witness ==
    /\ Handled("ok")
    /\ probe.before.previousHash = "h0"
    /\ probe.before.currentHash = "h1"
    /\ probe.before.liveReload
    /\ page.reloads = 1

----------------------------------------------------------------------------
(* Builds, end to end: the relay's broadcast and the page that handles it *)

\* the pages a connection may belong to
Pages == ClientPages \cup {ClientInit(h) : h \in ClientHashes}

\* the page p after everything connection c was sent
PageBefore(p, c) == ClientAfter(p, conn[c].received)

PageAfter(p, c) == ClientAfter(p, conn'[c].received)

\* C25: a done event for a result with an error and no warning sends every
\* open registered connection exactly 'hash' and then 'errors', so neither
\* 'warnings' nor 'ok'; a page that handles the two neither reloads nor
\* hot-updates, it records the hash and, with the overlay on, shows the
\* errors.
C25_FailedBuildEndToEnd ==
    [][(DoneStep /\ stats'.errors # <<>> /\ stats'.warnings = <<>>)
        => \A c \in Conns :
             Reached(c) =>
                /\ Gained(c) = <<Envelope("hash", <<stats'.hash>>, NoParams),
                                 Envelope("errors", stats'.errors, NoParams)>>
                /\ \A p \in Pages :
                     /\ PageAfter(p, c).reloads = PageBefore(p, c).reloads
                     /\ PageAfter(p, c).hotUpdates = PageBefore(p, c).hotUpdates
                     /\ PageAfter(p, c).currentHash = stats'.hash
                     /\ PageAfter(p, c).overlay
                           => PageAfter(p, c).overlayState = "displayBuildError"]_vars

\* a connection with live reload on got its burst before any build and then
\* the broadcast of a failed build: hash, errors
C25_Witness ==
    \E c \in Conns :
        /\ conn[c].readyState = OPEN
        /\ conn[c].verdict = "trusted"
        /\ options.liveReload
        /\ probe.op = "none"
        /\ builds = 1
        /\ stats.errors # <<>>
        /\ Len(conn[c].received) = FlagCount(options) + 2
        /\ LET n == Len(conn[c].received) IN
           /\ conn[c].received[n - 1].type = "hash"
           /\ conn[c].received[n].type = "errors"
        /\ ClientAfter(ClientInit("h0"), conn[c].received).reloads = 0

\* C26: a done event that repeats the clean result broadcast last sends
\* every open registered connection 'still-ok' alone, and a page that
\* handles it does not reload or hot-update, keeps currentHash and
\* previousHash, and hides no overlay: the overlay was hidden before.
C26_RepeatedBuildEndToEnd ==
    [][(DoneStep /\ Clean(stats') /\ stats' = stats /\ currentHash = stats.hash)
        => \A c \in Conns :
             Reached(c) =>
                /\ Gained(c) = <<Envelope("still-ok", NoData, NoParams)>>
                /\ \A p \in Pages :
                     /\ PageAfter(p, c).reloads = PageBefore(p, c).reloads
                     /\ PageAfter(p, c).hotUpdates = PageBefore(p, c).hotUpdates
                     /\ PageAfter(p, c).currentHash = PageBefore(p, c).currentHash
                     /\ PageAfter(p, c).previousHash = PageBefore(p, c).previousHash
                     /\ PageAfter(p, c).dismissals = PageBefore(p, c).dismissals
                     /\ PageBefore(p, c).overlayState = "hidden"]_vars

\* a page with live reload reloaded once for the first broadcast of a clean
\* build and then handled the 'still-ok' of the second
C26_Witness ==
    \E c \in Conns :
        /\ conn[c].readyState = OPEN
        /\ options.liveReload
        /\ ~options.hot
        /\ builds = 2
        /\ Len(conn[c].received) = FlagCount(options) + 3
        /\ conn[c].received[Len(conn[c].received)].type = "still-ok"
        /\ ClientAfter(ClientInit("h0"), conn[c].received).reloads = 1
        /\ ClientAfter(ClientInit("h0"), conn[c].received).handled
              = Len(conn[c].received)

----------------------------------------------------------------------------
(* Startup with an unknown transport *)

KnownTransports == {"ws", "sockjs", "custom"}

\* C27: with a transport type that names no implementation, the start of
\* the relay throws: the relay never exists, so no connection is ever
\* accepted, registered or sent an envelope, and no heartbeat timer runs.
\* No start fails for a known type.
C27_UnknownTransportFailsStartup ==
    /\ options.transport \notin KnownTransports
         => /\ webSocketServer = "undefined"
            /\ clients = <<>>
            /\ \A c \in Conns : conn[c] = IdleConn
            /\ interval = "undefined"
    /\ probe.op = "start" => probe.error /\ options.transport \notin KnownTransports

\* the start has thrown, and a build completed with no relay to tell
C27_Witness ==
    /\ options.transport = "unknown"
    /\ probe.op = "start"
    /\ probe.error
    /\ builds = 1
    /\ stats.defined

----------------------------------------------------------------------------
(* currentHash *)

\* the step sent the forced snapshot of an initial burst
SnapshotStep ==
    /\ probe'.op = "connection"
    /\ conn'[probe'.c].verdict = "trusted"
    /\ conn[probe'.c].state = "idle"
    /\ stats.defined

\* C28: a step changes currentHash only if it is a done event handled while
\* the relay exists and not answered by 'still-ok', or the forced snapshot
\* of an initial burst; every other step (a broadcast of another message,
\* a rejected connection, a heartbeat tick, a pong, a close, stop) leaves
\* it alone.  After a done event handled while the relay exists and after a
\* forced snapshot, currentHash is the hash of the latest build.
C28_CurrentHashFollowsBuilds ==
    /\ [][currentHash' # currentHash
            => \/ DoneStep /\ ~(Clean(stats') /\ stats'.hash = currentHash)
               \/ SnapshotStep]_vars
    /\ [][(DoneStep \/ SnapshotStep) => currentHash' = stats'.hash]_vars

\* the relay recorded the hash of a build it broadcast to a connection
C28_Witness ==
    /\ webSocketServer = "up"
    /\ builds = 1
    /\ probe.op = "none"
    /\ currentHash = "h2"
    /\ stats.hash = "h2"
    /\ \E c \in Conns : HasType(conn[c].received, "hash")
                           /\ conn[c].received[Len(conn[c].received)].type = "errors"

----------------------------------------------------------------------------
(* The heartbeat *)

TickStep == probe'.op = "tick" /\ interval = "running"

\* C29: a heartbeat tick terminates exactly the registered connections
\* whose isAlive flag is false when it runs; for every other registered
\* connection it sets the flag to false and pings, and it does not touch a
\* connection outside the registry.  The flag turns from false to true only
\* by a pong.  So a connection that answers each ping before the next tick
\* is never terminated by the heartbeat: nothing but a tick that finds the
\* flag false, or stop(), terminates.
C29_HeartbeatSparesAnswering ==
    /\ [][TickStep =>
            \A c \in Conns :
                IF ~InRegistry(c) THEN conn'[c] = conn[c]
                ELSE IF conn[c].isAlive = "false"
                THEN conn'[c].terminated
                ELSE /\ conn'[c].isAlive = "false"
                     /\ conn'[c].pings = conn[c].pings + 1
                     /\ conn'[c].terminated = conn[c].terminated
                     /\ conn'[c].readyState = conn[c].readyState]_vars
    /\ [][\A c \in Conns :
            /\ (conn[c].isAlive = "false" /\ conn'[c].isAlive = "true")
                  => /\ conn'[c].ponged
                     /\ conn'[c].terminated = conn[c].terminated
            /\ (conn'[c].terminated /\ ~conn[c].terminated)
                  => \/ TickStep /\ InRegistry(c) /\ conn[c].isAlive = "false"
                     \/ probe'.op = "stop"]_vars

\* a connection answered the first ping, was pinged again by the second
\* tick, answered again and is open
C29_Witness ==
    \E c \in Conns :
        /\ options.transport = "ws"
        /\ webSocketServer = "up"
        /\ conn[c].pings = 2
        /\ conn[c].ponged
        /\ conn[c].isAlive = "true"
        /\ conn[c].readyState = OPEN
        /\ ~conn[c].terminated

\* C30: a heartbeat tick runs only while the relay of the ws backend is up
\* and its timer is running; the close of that backend clears the timer,
\* and from then on no step pings a connection, changes an isAlive flag or
\* terminates a connection.
C30_HeartbeatStopsOnClose ==
    /\ [](probe.op = "tick" => webSocketServer = "up" /\ options.transport = "ws")
    /\ [](webSocketServer = "null" => interval # "running")
    /\ [][webSocketServer = "null" =>
            /\ probe'.op # "tick"
            /\ \A c \in Conns :
                 /\ conn'[c].pings = conn[c].pings
                 /\ conn'[c].isAlive = conn[c].isAlive
                 /\ conn'[c].terminated = conn[c].terminated]_vars

\* the ws backend closed after its heartbeat had pinged a connection, and
\* a build completed afterwards
C30_Witness ==
    /\ options.transport = "ws"
    /\ webSocketServer = "null"
    /\ interval = "cleared"
    /\ \E c \in Conns : conn[c].pings >= 1 /\ conn[c].terminated
    /\ builds = 1
    /\ probe.op = "none"

----------------------------------------------------------------------------
(* The socket's counter, timer and client *)

\* C31: an open leaves the retry counter at zero and no reconnect timer
\* pending.  In every state a pending reconnect timer and a transport
\* client do not exist together, at most one timer is pending, and the
\* retry counter is at most maxRetries.
C31_SocketInvariant ==
    /\ probe.op = "open" => /\ socket.retries = 0
                            /\ socket.timeout # "pending"
                            /\ socket.timers = 0
    /\ ~(socket.timers > 0 /\ socket.client # "null")
    /\ socket.timers <= 1
    /\ socket.timers = (IF socket.timeout = "pending" THEN 1 ELSE 0)
    /\ socket.retries <= socket.maxRetries

\* a reconnection opened after three closes in a row
C31_Witness ==
    /\ probe.op = "open"
    /\ probe.retries = 3
    /\ socket.retries = 0
    /\ socket.client = "open"
    /\ socket.timeout = "cleared"

----------------------------------------------------------------------------
(* The cross-origin-header-check middleware *)

\* the header the middleware validates
CheckedHeader(headers) ==
    IF Get(headers, ":authority") # Undefined /\ Get(headers, ":authority") # <<>>
    THEN Get(headers, ":authority") ELSE Get(headers, "host")

\* the request says it is a no-cors request from another site
CrossSiteNoCors(headers) ==
    /\ Get(headers, "sec-fetch-mode") = <<"no-cors">>
    /\ Get(headers, "sec-fetch-site") = <<"cross-site">>

\* C32: the cross-origin check validates :authority (when present) or Host
\* in non-strict mode.  A request that fails it is answered 403
\* 'Cross-Origin request blocked', without next, exactly when sec-fetch-mode
\* is 'no-cors' and sec-fetch-site is 'cross-site'; every other request is
\* passed to next once with nothing written.  Non-strict: unless
\* allowedHosts is 'all', a loopback name, an IP literal or the listening
\* host that the allow-list does not name fails the check.
C32_CrossOriginCheck ==
    probe.op = "cross-origin-header-check" =>
        LET h     == CheckedHeader(probe.headers)
            a     == Get(probe.headers, ":authority")
            name  == IF a # Undefined /\ a # <<>> THEN ":authority" ELSE "host"
            valid == isValidHost(options, probe.headers, name, FALSE)
        IN /\ probe.res = IF ~valid /\ CrossSiteNoCors(probe.headers)
                          THEN [statusCode |-> 403, body |-> "Cross-Origin request blocked",
                                nextCalls |-> 0]
                          ELSE [statusCode |-> 0, body |-> "", nextCalls |-> 1]
           /\ (/\ options.allowedHosts # StringValue("all")
               /\ h \in {WithPort(localhost), WithPort(ipv4)}
               /\ CrossSiteNoCors(probe.headers))
                 => probe.res.statusCode = 403

\* a cross-site no-cors request for localhost, which the strict check of
\* host-header-check lets through, was blocked
C32_Witness ==
    /\ probe.op = "cross-origin-header-check"
    /\ Get(probe.headers, ":authority") = Undefined
    /\ Get(probe.headers, "host") = WithPort(localhost)
    /\ isValidHost(options, probe.headers, "host", TRUE)
    /\ CrossSiteNoCors(probe.headers)
    /\ probe.res.statusCode = 403
    /\ probe.res.nextCalls = 0

----------------------------------------------------------------------------
(* Stale pages *)

\* the page would act on reloadApp
ReloadingEnabled(cs) ==
    (cs.hot /\ cs.allowToHot) \/ (cs.liveReload /\ cs.allowToLiveReload)

\* C33 as stated: when the latest build is clean and every envelope sent has
\* been handled, a page with reloading enabled that belongs to an open
\* trusted connection runs the code of that build: it was loaded with it,
\* or it handled an 'ok' for it that made it reload or hot-update.
C33_NoStaleClient ==
    \A c \in Conns :
        (Reached(c) /\ conn[c].verdict = "trusted" /\ stats.defined /\ Clean(stats))
        => \A p \in Pages :
             LET cs == ClientAfter(p, conn[c].received)
             IN (ReloadingEnabled(cs) /\ ~cs.isUnloading) => cs.running = stats.hash

----------------------------------------------------------------------------
(* The retry budget *)

\* C34: the reconnect value a connection's callbacks hold is the one the
\* first socket() call was given, for every connection; once a connection
\* has opened, maxRetries is that value (or stays 10 when it is absent).  A
\* 'reconnect' envelope sets options.reconnect and leaves the socket's
\* state alone, so no later budget comes from it.
C34_BudgetFixedAtStart ==
    /\ [][socket'.reconnect = socket.reconnect]_vars
    /\ [][probe'.op = "message" =>
            /\ socket' = socket
            /\ probe'.env.type = "reconnect"
                  => page'.reconnect = Reconnect(probe'.env.data[1])]_vars
    /\ [](socket.opened =>
            socket.maxRetries = IF socket.reconnect.defined
                                THEN socket.reconnect.value ELSE DefaultMaxRetries)

\* a page started with budget 1 was told 'reconnect' 5, lost its
\* connection and opened the next one: the budget is 1
C34_Witness ==
    /\ probe.op = "open"
    /\ probe.retries = 1
    /\ page.reconnect = Reconnect(5)
    /\ socket.reconnect = Reconnect(1)
    /\ socket.maxRetries = 1

----------------------------------------------------------------------------
(* The reconnect loop *)

\* C35: the reconnections started since the last open never exceed 10, the
\* largest budget; if from some point on the server is never up, the client
\* ends up disconnected for good with no timer pending; and whenever a
\* timer is pending, the client later is connected with its retry counter
\* at zero, unless the server is found down.
C35_ReconnectLoopEnds ==
    /\ [](socket.attempts <= DefaultMaxRetries)
    /\ (<>[](webSocketServer # "up"))
          => <>[](socket.client = "null" /\ socket.timers = 0)
    /\ [](socket.timers = 1
            => <>(\/ socket.client = "open" /\ socket.retries = 0
                  \/ webSocketServer # "up"))

\* the server stopped, the client used up its budget of 2 and gave up
C35_Witness ==
    /\ webSocketServer = "null"
    /\ socket.opened
    /\ socket.maxRetries = 2
    /\ socket.retries = 2
    /\ socket.attempts = 2
    /\ socket.client = "null"
    /\ socket.timers = 0

----------------------------------------------------------------------------
(* The registry over several connections *)

\* list without every occurrence of c
Without(list, c) == SelectSeq(list, LAMBDA x : x # c)

\* C36: no connection is in the registry twice.  A step that handles the
\* close of a connection takes exactly that connection out and keeps the
\* others in their order; the registry changes otherwise only by one
\* connection being appended or by stop() emptying it.  A trusted
\* connection that is open is in the registry.
C36_RegistryExact ==
    /\ [](\A i, j \in 1..Len(clients) : clients[i] = clients[j] => i = j)
    /\ [][\A c \in DOMAIN conn :
            (conn[c].readyState # CLOSED /\ conn'[c].readyState = CLOSED)
                => clients' = Without(clients, c)]_vars
    /\ [][clients' # clients
            => \/ \E c \in DOMAIN conn :
                    /\ conn[c].readyState # CLOSED /\ conn'[c].readyState = CLOSED
                    /\ InRegistry(c)
               \/ \E c \in DOMAIN conn :
                    /\ conn[c].state = "idle"
                    /\ clients' = Append(clients, c)
               \/ probe'.op = "stop" /\ clients' = <<>>]_vars
    /\ [](\A c \in DOMAIN conn :
            (conn[c].verdict = "trusted" /\ conn[c].readyState = OPEN) => InRegistry(c))

\* the first of two trusted connections closed and the second, still open,
\* is what the registry holds
C36_Witness ==
    /\ Len(clients) = 1
    /\ \E c, d \in DOMAIN conn :
          /\ c < d
          /\ conn[c].verdict = "trusted" /\ conn[c].readyState = CLOSED
          /\ conn[d].verdict = "trusted" /\ conn[d].readyState = OPEN
          /\ clients = <<d>>

----------------------------------------------------------------------------
(* The overlay *)

\* the last envelope connection c was sent closes the problems of a build
EndsWithProblems(c) ==
    /\ conn[c].received # <<>>
    /\ conn[c].received[Len(conn[c].received)].type \in {"warnings", "errors"}

\* C37 as stated: once the envelopes of the latest build are handled, the
\* overlay of a page that has it switched on holds exactly that build's
\* warnings followed by its errors, nothing of an earlier build; and a
\* hidden overlay holds no message.
C37_OverlayHoldsLatestBuild ==
    \A c \in Conns : \A p \in Pages :
        LET cs == ClientAfter(p, conn[c].received)
        IN /\ cs.overlayState = "hidden" => cs.messages = <<>>
           /\ (/\ Reached(c) /\ conn[c].verdict = "trusted"
               /\ stats.defined /\ EndsWithProblems(c)
               /\ cs.overlay)
                 => /\ cs.overlayState = "displayBuildError"
                    /\ cs.messages = stats.warnings \o stats.errors

----------------------------------------------------------------------------
(* The page's overlay under envelopes and Escape key presses *)

\* the overlay setting of the page's resource query: absent, or the "true"
\* the server writes by default
QueryOverlay == {FALSE, TRUE}

InitOverlay ==
    /\ options = RelayOptionFlags("ws", TRUE, TRUE, TRUE, TRUE, TRUE)
    /\ webSocketServer = "undefined"
    /\ clients = <<>>
    /\ conn = [c \in Conns |-> IdleConn]
    /\ stats = NoStats
    /\ currentHash = "undefined"
    /\ builds = 0
    /\ notices = 0
    /\ probe = NoProbe
    /\ interval = "undefined"
    /\ \E p \in ClientPages, o \in QueryOverlay :
          /\ page = [p EXCEPT !.overlay = o]
          /\ socket = SocketStart(page.reconnect)

\* an Escape keydown event on the page's window
EscapeKey ==
    /\ page' = handleEscapeKey(page)
    /\ probe' = [op |-> "escape"]
    /\ UNCHANGED socket
    /\ Served

NextOverlay ==
    \/ SocketOpen
    \/ \E env \in ClientEnvelopes : ClientMessage(env)
    \/ EscapeKey

SpecOverlay == InitOverlay /\ [][NextOverlay]_vars

\* C38 as stated: whenever the overlay machine is in displayBuildError or
\* displayRuntimeError, an Escape keydown takes it to hidden, also after
\* the overlay has been hidden and shown again.
C38_EscapeDismisses ==
    [][(probe'.op = "escape"
        /\ page.overlayState \in {"displayBuildError", "displayRuntimeError"})
          => page'.overlayState = "hidden"]_vars

====
